---- MODULE Spec2Model ----
(***************************************************************************)
(* Seed generators of voyager-backend (supabase/seeds_generators).         *)
(*                                                                         *)
(* Text is modelled as a sequence of character codes (ASCII), so that      *)
(* upper-casing, quote doubling, hex formatting and the ordering used by   *)
(* list.sort() are computed the way Python computes them.                  *)
(***************************************************************************)
EXTENDS Integers, Sequences, FiniteSets, TLC

VARIABLES
    sqlPc, sqlIn, sqlOut,               \* format_sql_value applied to a text
    colPc, colPalette, colAlpha, colOut, \* get_muted_color_with_alpha applied to a palette
    \* CountriesGenerator.generate
    cgPc,        \* "idle", "start", "loop", "done" or "failed" (generate() raised)
    cgError,     \* which step raised: "none", "fetch", "convert", "flag", "palette"
    cgRun,       \* 1 or 2
    cgFetched,   \* what get_all_countries() returns in this run
    cgRest,      \* rest_countries
    cgIdx,       \* position of the loop in rest_countries
    cgRows,      \* rows
    cgEmitted,   \* for each row appended: the payload, the CountryData and the palette
    cgDerived,   \* payloads to_country_data was called on in this run
    cgUploads,   \* paths uploaded to the flags bucket in this run
    cgStorage,   \* the flags bucket
    cgFile,      \* the output file
    cgFile1,     \* the output file as the first run left it
    cgEmitted1,  \* cgEmitted of the first run
    cgLast,      \* the last iteration: the step reached and what the colour calls answered
    \* PodcastScriptGenerator.generate and PodcastAudioGenerator.generate
    pgPc,        \* "idle", "start", "collect" (the as_completed loop), "exit" (leaving the with block), "done"
    pgRun,       \* 1 or 2
    units,       \* for each country: its future and the position of _process_country
    quota_exceeded,       \* _quota_exceeded
    scripts,     \* the bucket podcasts_scripts
    audio,       \* the bucket podcasts
    processed_countries, uploaded_count, skipped_count, failed_count,
    pgYielded,   \* countries whose future the as_completed loop has handled
    pgCalls,     \* the remote calls made in this run, by country
    pgLate,      \* the units still pending when the flag was set
    pgProduced1, \* countries whose object the first run uploaded
    \* CountryPodcastGenerator.generate
    igPc,        \* "idle", "start", "loop", "fallback", "done" or "raised" (generate() raised)
    igError,     \* the call whose exception left generate(): "none", "get_by_iso2", "insert"
    wav_files,
    igIdx,       \* position of the loop over wav_files, then over podcast_records
    podcast_records,
    country_podcasts,     \* the table country_podcasts
    ig_processed_count, ig_skipped_count,   \* processed_count, skipped_count of generate()
    igInserted,  \* rows inserted in this run
    psPc, psContent, psResult,          \* parse_response applied to the content of an answer
    \* VibesCountryGenerator.generate
    vgPc,        \* "idle", "start", "batches", "fallback", "done" or "raised" (generate() raised)
    vgError,     \* what raised: "none", "no vibes", "llm", "parse", "insert"
    vgCountries, \* countries
    vgVibes,     \* vibes
    batch_idx,
    all_vibe_country_records,
    vibes_country,        \* the table vibes_country
    vgAnswers,   \* what the LLM answered, batch by batch
    vgBulkError, \* what insert_many raised
    vgInsertIdx, \* position of the one-by-one fallback
    vgFallback,  \* for each record the fallback handled: the record and what insert raised
    \* get_or_upload_from_url called again and again
    stPc, stBucket,
    stWrites,    \* how many times each path was written
    stOverwritten,        \* paths written while the object was there
    stCalls, stLast,
    \* main() of generator.py
    mnPc,        \* "idle", "loop", "done" or "raised" (main() raised)
    generators,
    mnIdx,       \* position of the loop
    mnStarted,   \* the generators whose generate() was entered, in order
    mnActive,    \* the generator whose generate() is running
    mnRaised,    \* the generator whose generate() raised last
    \* the subtitle chosen by the ingest generator, process by process
    sbPc, sbProcess,
    sbSecret,    \* the hash secret of the running process
    sbSubtitle,  \* the subtitle each process chose for each ISO2 code
    \* --- the threads of the audio generator and its locks
    lkPc,        \* where each thread stands (thread 0 is the main thread)
    lkLocks,     \* the threads inside each lock: quota (_quota_lock), stats (_stats_lock)
    lkReg        \* the locals of each thread: the flag it read, the number it loaded,
                 \* the result of its unit

sqlVars == <<sqlPc, sqlIn, sqlOut>>
colVars == <<colPc, colPalette, colAlpha, colOut>>
cgVars == <<cgPc, cgError, cgRun, cgFetched, cgRest, cgIdx, cgRows, cgEmitted, cgDerived,
           cgUploads, cgStorage, cgFile, cgFile1, cgEmitted1, cgLast>>
pgVars == <<pgPc, pgRun, units, quota_exceeded, scripts, audio, processed_countries,
           uploaded_count, skipped_count, failed_count, pgYielded, pgCalls, pgLate, pgProduced1>>
igVars == <<igPc, igError, wav_files, igIdx, podcast_records, country_podcasts,
           ig_processed_count, ig_skipped_count, igInserted>>
psVars == <<psPc, psContent, psResult>>
vgVars == <<vgPc, vgError, vgCountries, vgVibes, batch_idx, all_vibe_country_records,
           vibes_country, vgAnswers, vgBulkError, vgInsertIdx, vgFallback>>
stVars == <<stPc, stBucket, stWrites, stOverwritten, stCalls, stLast>>
mnVars == <<mnPc, generators, mnIdx, mnStarted, mnActive, mnRaised>>
sbVars == <<sbPc, sbProcess, sbSecret, sbSubtitle>>
lkVars == <<lkPc, lkLocks, lkReg>>
vars == <<sqlVars, colVars, cgVars, pgVars, igVars, psVars, vgVars, stVars, mnVars, sbVars, lkVars>>

(***************************************************************************)
(* Bounds of the model                                                     *)
(***************************************************************************)
MaxTextLen == 4
MaxCountries == 2
NumCountries == 3
MaxFiles == 2
MaxItems == 2
MaxCalls == 3
MaxProcesses == 2
MaxSecret == 2
MaxUnits == 2

(***************************************************************************)
(* Characters and text                                                     *)
(***************************************************************************)
\* printable ASCII, code 32 (space) first; codes 34, 92 and 96 are named, not written
CharTable ==
    <<" ", "!", "dquote", "#", "$", "%", "&", "'", "(", ")", "*", "+", ",", "-", ".", "/",
      "0", "1", "2", "3", "4", "5", "6", "7", "8", "9", ":", ";", "<", "=", ">", "?",
      "@", "A", "B", "C", "D", "E", "F", "G", "H", "I", "J", "K", "L", "M", "N", "O",
      "P", "Q", "R", "S", "T", "U", "V", "W", "X", "Y", "Z", "[", "backslash", "]", "^", "_",
      "backtick", "a", "b", "c", "d", "e", "f", "g", "h", "i", "j", "k", "l", "m", "n", "o",
      "p", "q", "r", "s", "t", "u", "v", "w", "x", "y", "z", "{", "|", "}", "~">>

Ord(ch) == 31 + (CHOOSE i \in 1..Len(CharTable) : CharTable[i] = ch)

\* the text whose characters are the one-character strings of t
S(t) == [i \in 1..Len(t) |-> Ord(t[i])]

Quote == Ord("'")

\* texts and characters the code writes
DotPng == S(<<".", "p", "n", "g">>)
Slash == S(<<"/">>)
RowOpen == S(<<" ", " ", "(">>)
RowSep == S(<<",", " ">>)
RowClose == S(<<")">>)
NoneText == S(<<"N", "o", "n", "e">>)
Hash == Ord("#")
Digit0 == Ord("0")
Digit9 == Ord("9")
UpperA == Ord("A")
UpperF == Ord("F")
UpperZ == Ord("Z")
LowerA == Ord("a")
LowerZ == Ord("z")

\* str.upper() on ASCII text
UpperChar(c) == IF c >= LowerA /\ c <= LowerZ THEN c - 32 ELSE c
upper(s) == [i \in 1..Len(s) |-> UpperChar(s[i])]

IsUpperLetter(c) == c >= UpperA /\ c <= UpperZ

\* Python's ordering of str: lexicographic by code point, a proper prefix first
TextLess(a, b) ==
    LET n == IF Len(a) < Len(b) THEN Len(a) ELSE Len(b)
        differ == {i \in 1..n : a[i] /= b[i]}
    IN  IF differ = {} THEN Len(a) < Len(b)
        ELSE LET first == CHOOSE i \in differ : \A j \in differ : i <= j
             IN  a[first] < b[first]

TextLeq(a, b) == a = b \/ TextLess(a, b)

\* all texts over an alphabet, up to a length
RECURSIVE TextsUpTo(_, _)
TextsUpTo(alphabet, n) ==
    IF n = 0 THEN {<<>>}
    ELSE LET shorter == TextsUpTo(alphabet, n - 1)
         IN  shorter \cup {<<c>> \o t : c \in alphabet, t \in {u \in shorter : Len(u) = n - 1}}

(***************************************************************************)
(* BaseGenerator.sql_escape / format_sql_value                             *)
(***************************************************************************)
\* value.replace("'", "''"): every quote, left to right, becomes two
sql_escape_nodouble(value) == value

RECURSIVE sql_escape(_)
sql_escape(value) ==
    IF value = <<>> THEN <<>>
    ELSE (IF Head(value) = Quote THEN <<Quote, Quote>> ELSE <<Head(value)>>)
         \o sql_escape(Tail(value))

format_sql_value(value) == <<Quote>> \o sql_escape(value) \o <<Quote>>

(***************************************************************************)
(* ColorExtractor.get_muted_color_with_alpha                               *)
(***************************************************************************)
\* Python's None; a palette is None or the pair <<muted, dark_muted>> of swatches,
\* a swatch is None or its rgb triple
None == <<>>
muted(palette) == palette[1]
dark_muted(palette) == palette[2]

DEFAULT_COLOR == S(<<"#", "C", "C", "0", "0", "0", "0", "0", "0">>)

HexDigit(d) == IF d < 10 THEN Digit0 + d ELSE UpperA + (d - 10)

\* format(n, "X") for n >= 0
RECURSIVE HexStr(_)
HexStr(n) == IF n < 16 THEN <<HexDigit(n)>> ELSE HexStr(n \div 16) \o <<HexDigit(n % 16)>>

\* f"{n:02X}": upper-case hex, zero-padded to at least two digits
Hex02X(n) == IF n < 16 THEN <<Digit0>> \o HexStr(n) ELSE HexStr(n)

\* int((alpha_percent / 100.0) * 255): int() truncates; the float product equals
\* the exact quotient's floor for every alpha_percent in 0..100
AlphaValue_rounded(alpha_percent) ==
    LET q == (alpha_percent * 255) \div 100
        r == (alpha_percent * 255) % 100
    IN  IF 2 * r > 100 \/ (2 * r = 100 /\ q % 2 = 1) THEN q + 1 ELSE q

AlphaValue(alpha_percent) == (alpha_percent * 255) \div 100

\* palette.muted or palette.dark_muted
MutedOrDark(palette) == IF muted(palette) /= None THEN muted(palette) ELSE dark_muted(palette)

get_muted_color_nofallback(palette, alpha_percent) ==
    IF palette = None THEN DEFAULT_COLOR
    ELSE LET muted_color == MutedOrDark(palette)
         IN  IF muted_color = None
             THEN <<Hash>> \o Hex02X(AlphaValue(alpha_percent)) \o S(<<"F", "F", "F", "F", "F", "F">>)
             ELSE <<Hash>> \o Hex02X(AlphaValue(alpha_percent))
                  \o Hex02X(muted_color[1]) \o Hex02X(muted_color[2]) \o Hex02X(muted_color[3])

get_muted_color_with_alpha(palette, alpha_percent) ==
    IF palette = None THEN DEFAULT_COLOR
    ELSE LET muted_color == MutedOrDark(palette)
         IN  IF muted_color = None THEN DEFAULT_COLOR
             ELSE <<Hash>> \o Hex02X(AlphaValue(alpha_percent))
                  \o Hex02X(muted_color[1]) \o Hex02X(muted_color[2]) \o Hex02X(muted_color[3])


(***************************************************************************)
(* RestCountries payloads (RestCountryResponse) the API may return.        *)
(* languages and currencies are JSON objects: their entries in document    *)
(* order, each <<key, value>> (for a currency, value is its name).         *)
(***************************************************************************)
Payload(cca2, common, capital, continents, languages, currencies, png, svg) ==
    [cca2 |-> cca2, common |-> common, capital |-> capital, continents |-> continents,
     languages |-> languages, currencies |-> currencies, png |-> png, svg |-> svg]

PUs == Payload(S(<<"u", "s">>), S(<<"U", "n", "i", "t", "e", "d", " ", "S", "t", "a", "t", "e", "s">>), <<S(<<"W", "a", "s", "h", "i", "n", "g", "t", "o", "n", ",", " ", "D", ".", "C", ".">>)>>, <<S(<<"N", "o", "r", "t", "h", " ", "A", "m", "e", "r", "i", "c", "a">>)>>,
               <<<<S(<<"e", "n", "g">>), S(<<"E", "n", "g", "l", "i", "s", "h">>)>>>>, <<<<S(<<"U", "S", "D">>), S(<<"U", "n", "i", "t", "e", "d", " ", "S", "t", "a", "t", "e", "s", " ", "D", "o", "l", "l", "a", "r">>)>>>>,
               S(<<"h", "t", "t", "p", ":", "/", "/", "x", "/", "u", "s", ".", "p", "n", "g">>), <<>>)
\* the same code in upper case under another name
PUsUpper == Payload(S(<<"U", "S">>), S(<<"A", "m", "e", "r", "i", "c", "a">>), <<S(<<"W", "a", "s", "h", "i", "n", "g", "t", "o", "n">>)>>, <<S(<<"N", "o", "r", "t", "h", " ", "A", "m", "e", "r", "i", "c", "a">>)>>,
               <<<<S(<<"e", "n", "g">>), S(<<"E", "n", "g", "l", "i", "s", "h">>)>>>>, <<<<S(<<"U", "S", "D">>), S(<<"D", "o", "l", "l", "a", "r">>)>>>>, S(<<"u">>), <<>>)
\* a quote in the capital, two languages, only an svg flag
PTd == Payload(S(<<"t", "d">>), S(<<"C", "h", "a", "d">>), <<S(<<"N", "'", "D", "j", "a", "m", "e", "n", "a">>)>>, <<S(<<"A", "f", "r", "i", "c", "a">>)>>,
               <<<<S(<<"f", "r", "a">>), S(<<"F", "r", "e", "n", "c", "h">>)>>, <<S(<<"a", "r", "a">>), S(<<"A", "r", "a", "b", "i", "c">>)>>>>, <<<<S(<<"x", "a", "f">>), S(<<"C", "F", "A", " ", "f", "r", "a", "n", "c">>)>>>>,
               <<>>, S(<<"t">>))
\* no capital, two capitals would be taken in order
PMo == Payload(S(<<"M", "O">>), S(<<"M", "a", "c", "a", "u">>), <<>>, <<S(<<"A", "s", "i", "a">>)>>,
               <<<<S(<<"z", "h", "o">>), S(<<"C", "h", "i", "n", "e", "s", "e">>)>>, <<S(<<"p", "o", "r">>), S(<<"P", "o", "r", "t", "u", "g", "u", "e", "s", "e">>)>>>>, <<<<S(<<"M", "O", "P">>), S(<<"P", "a", "t", "a", "c", "a">>)>>>>,
               S(<<"m">>), <<>>)
\* a currency without a name, two capitals
PXk == Payload(S(<<"x", "k">>), S(<<"K", "o", "s", "o", "v", "o">>), <<S(<<"P", "r", "i", "s", "t", "i", "n", "a">>), S(<<"P", "r", "i", "z", "r", "e", "n">>)>>, <<S(<<"E", "u", "r", "o", "p", "e">>)>>,
               <<<<S(<<"s", "q", "i">>), S(<<"A", "l", "b", "a", "n", "i", "a", "n">>)>>>>, <<<<S(<<"e", "u", "r">>), <<>>>>, <<S(<<"R", "S", "D">>), S(<<"D", "i", "n", "a", "r">>)>>>>, S(<<"k">>), <<>>)
\* ignored by code, in lower case, every other field usable
PAq == Payload(S(<<"a", "q">>), S(<<"A", "n", "t", "a", "r", "c", "t", "i", "c", "a">>), <<S(<<"M", "c", "M", "u", "r", "d", "o">>)>>, <<S(<<"E", "u", "r", "o", "p", "e">>)>>,
               <<<<S(<<"e", "n", "g">>), S(<<"E", "n", "g", "l", "i", "s", "h">>)>>>>, <<<<S(<<"U", "S", "D">>), S(<<"D", "o", "l", "l", "a", "r">>)>>>>, S(<<"a">>), <<>>)
\* ignored by continent, which comes second in its list
PTf == Payload(S(<<"t", "f">>), S(<<"T", "A", "A", "F">>), <<S(<<"P", "o", "r", "t">>)>>, <<S(<<"A", "f", "r", "i", "c", "a">>), S(<<"A", "n", "t", "a", "r", "c", "t", "i", "c", "a">>)>>,
               <<<<S(<<"f", "r", "a">>), S(<<"F", "r", "e", "n", "c", "h">>)>>>>, <<<<S(<<"E", "U", "R">>), S(<<"E", "u", "r", "o">>)>>>>, S(<<"f">>), <<>>)
\* a code of three letters
PUsa == Payload(S(<<"u", "s", "a">>), S(<<"U", "S", "A">>), <<S(<<"D", "C">>)>>, <<S(<<"N", "o", "r", "t", "h", " ", "A", "m", "e", "r", "i", "c", "a">>)>>,
               <<<<S(<<"e", "n", "g">>), S(<<"E", "n", "g", "l", "i", "s", "h">>)>>>>, <<<<S(<<"U", "S", "D">>), S(<<"D", "o", "l", "l", "a", "r">>)>>>>, S(<<"u">>), <<>>)
\* no continent: continents[0] raises IndexError
PNoContinent == Payload(S(<<"b", "v">>), S(<<"B", "o", "u", "v", "e", "t">>), <<>>, <<>>,
               <<<<S(<<"n", "o", "r">>), S(<<"N", "o", "r", "w", "e", "g", "i", "a", "n">>)>>>>, <<<<S(<<"N", "O", "K">>), S(<<"K", "r", "o", "n", "e">>)>>>>, S(<<"b">>), <<>>)
\* no flag URL at all
PNoFlag == Payload(S(<<"f", "r">>), S(<<"F", "r", "a", "n", "c", "e">>), <<S(<<"P", "a", "r", "i", "s">>)>>, <<S(<<"E", "u", "r", "o", "p", "e">>)>>,
               <<<<S(<<"f", "r", "a">>), S(<<"F", "r", "e", "n", "c", "h">>)>>>>, <<<<S(<<"E", "U", "R">>), S(<<"E", "u", "r", "o">>)>>>>, <<>>, <<>>)

Catalogue == {PUs, PUsUpper, PTd, PMo, PXk, PAq, PTf, PUsa, PNoContinent, PNoFlag}
TwiceCatalogue == {PUs, PTd}

\* all lists of at most n elements of a set
RECURSIVE ListsUpTo(_, _)
ListsUpTo(set, n) ==
    IF n = 0 THEN {<<>>}
    ELSE LET shorter == ListsUpTo(set, n - 1)
         IN  shorter \cup {<<x>> \o l : x \in set, l \in {k \in shorter : Len(k) = n - 1}}

Reorderings(l) ==
    {[i \in 1..Len(l) |-> l[f[i]]] :
        f \in {g \in [1..Len(l) -> 1..Len(l)] : \A i, j \in 1..Len(l) : g[i] = g[j] => i = j}}

(***************************************************************************)
(* RestCountryResponse.to_country_data (utils/restcountries/models.py)     *)
(***************************************************************************)
\* continents[0] and next(iter(...)) raise on an empty continents, languages
\* or currencies
CanConvert(p) == Len(p.continents) > 0 /\ Len(p.languages) > 0 /\ Len(p.currencies) > 0

to_country_data_lastcapital(p) ==
    LET primary_currency_code == upper(p.currencies[1][1])
    IN  [iso2 |-> upper(p.cca2),
         name |-> p.common,
         capital |-> IF p.capital /= <<>> THEN p.capital[Len(p.capital)] ELSE NoneText,
         continent |-> p.continents[1],
         primary_language |-> p.languages[1][2],
         primary_language_code |-> p.languages[1][1],
         primary_currency |-> IF p.currencies[1][2] /= <<>> THEN p.currencies[1][2]
                              ELSE primary_currency_code,
         primary_currency_code |-> primary_currency_code,
         flag_full_path |-> <<>>,
         background_hex |-> DEFAULT_COLOR]

to_country_data(p) ==
    LET primary_currency_code == upper(p.currencies[1][1])
    IN  [iso2 |-> upper(p.cca2),
         name |-> p.common,
         capital |-> IF p.capital /= <<>> THEN p.capital[1] ELSE NoneText,
         continent |-> p.continents[1],
         primary_language |-> p.languages[1][2],
         primary_language_code |-> upper(p.languages[1][1]),
         primary_currency |-> IF p.currencies[1][2] /= <<>> THEN p.currencies[1][2]
                              ELSE primary_currency_code,
         primary_currency_code |-> primary_currency_code,
         flag_full_path |-> <<>>,
         background_hex |-> DEFAULT_COLOR]

(***************************************************************************)
(* SupabaseStorageClient (utils/storage/supabase_storage.py); a bucket is  *)
(* the set of the paths of its objects                                     *)
(***************************************************************************)
\* list() or download() raising is caught and answered False, so a probe that
\* errors reports an existing object as absent
file_exists(bucket, storage_path, probeError) == storage_path \in bucket /\ ~probeError

\* the result of get_or_upload_from_url: ok is FALSE when it raised; transfer is
\* the outcome of upload_from_url, were it to run
get_or_upload_from_url(bucket, bucketName, storage_path, probeError, transfer) ==
    IF file_exists(bucket, storage_path, probeError)
    THEN [ok |-> TRUE, full_path |-> bucketName \o Slash \o storage_path,
          bucket |-> bucket, uploaded |-> FALSE]
    ELSE IF transfer = "ok"
         THEN [ok |-> TRUE, full_path |-> bucketName \o Slash \o storage_path,
               bucket |-> bucket \cup {storage_path}, uploaded |-> TRUE]
         ELSE [ok |-> FALSE, full_path |-> <<>>, bucket |-> bucket, uploaded |-> FALSE]

\* upload_from_url returns, or its download or its upload raises
TransferOutcomes == {"ok", "failed"}

(***************************************************************************)
(* CountriesGenerator (generators/manual/countries_generator.py)           *)
(***************************************************************************)
IGNORED_COUNTRIES == {S(<<"A", "Q">>)}
IGNORED_CONTINENTS == {S(<<"A", "n", "t", "a", "r", "c", "t", "i", "c", "a">>)}
\* settings.supabase_bucket_name_flags, at its default
FlagsBucketName == S(<<"f", "l", "a", "g", "s">>)

IsIgnored_casesensitive(country) ==
    \/ country.cca2 \in IGNORED_COUNTRIES
    \/ \E i \in 1..Len(country.continents) : country.continents[i] \in IGNORED_CONTINENTS

IsIgnored(country) ==
    \/ upper(country.cca2) \in IGNORED_COUNTRIES
    \/ \E i \in 1..Len(country.continents) : country.continents[i] \in IGNORED_CONTINENTS

NotIgnored(country) == ~IsIgnored(country)

\* sep.join(parts)
RECURSIVE Join(_, _)
Join(parts, sep) ==
    IF parts = <<>> THEN <<>>
    ELSE IF Len(parts) = 1 THEN parts[1]
    ELSE parts[1] \o sep \o Join(Tail(parts), sep)

RenderRow(country) ==
    RowOpen
    \o Join(<<format_sql_value(country.iso2),
              format_sql_value(country.name),
              format_sql_value(country.capital),
              format_sql_value(country.continent),
              format_sql_value(country.primary_language),
              format_sql_value(country.primary_language_code),
              format_sql_value(country.primary_currency),
              format_sql_value(country.primary_currency_code),
              format_sql_value(country.flag_full_path),
              format_sql_value(country.background_hex)>>, RowSep)
    \o RowClose

\* rows.sort(): ascending in the ordering of str
RECURSIVE InsertSorted(_, _)
InsertSorted(row, sorted) ==
    IF sorted = <<>> THEN <<row>>
    ELSE IF TextLeq(row, Head(sorted)) THEN <<row>> \o sorted
    ELSE <<Head(sorted)>> \o InsertSorted(row, Tail(sorted))

SortRows_unsorted(rows) == rows

RECURSIVE SortRows(_)
SortRows(rows) == IF rows = <<>> THEN <<>> ELSE InsertSorted(Head(rows), SortRows(Tail(rows)))

CountryColumns ==
    <<"iso2", "name", "capital", "continent", "primary_language", "primary_language_code",
      "primary_currency", "primary_currency_code", "flag_full_patch", "background_hex">>

\* the text write_insert_statement writes, by its parts
write_insert_statement(table_name, columns, rows, conflict_key) ==
    [header |-> "-- THIS FILE IS GENERATED. Edit seeds_generators/countriesgenerator.py instead of this file.",
     table_name |-> table_name,
     columns |-> columns,
     rows |-> rows,
     conflict_key |-> conflict_key,
     update_columns |-> SelectSeq(columns, LAMBDA col : col /= conflict_key)]

NoFile == [header |-> "", table_name |-> "", columns |-> <<>>, rows |-> <<>>,
           conflict_key |-> "", update_columns |-> <<>>]

\* what extract_palette_from_url may return for a flag: None when the download
\* or the analysis failed, else a palette
PaletteOutcomes == {None, <<None, None>>, <<None, <<171, 9, 200>>>>}

NoAttempt == [step |-> "none", signedOk |-> FALSE, palette |-> None]

InitCgIdle ==
    /\ cgPc = "idle" /\ cgError = "none" /\ cgRun = 1
    /\ cgFetched = <<>> /\ cgRest = <<>> /\ cgIdx = 1
    /\ cgRows = <<>> /\ cgEmitted = <<>> /\ cgDerived = {} /\ cgUploads = {}
    /\ cgStorage = {} /\ cgFile = NoFile /\ cgFile1 = NoFile /\ cgEmitted1 = <<>>
    /\ cgLast = NoAttempt

\* a run about to start: the API's answer is a list of payloads, the flags bucket
\* is empty or already holds the flag of US
InitCgFrom(catalogue) ==
    /\ cgPc = "start" /\ cgError = "none" /\ cgRun = 1
    /\ cgFetched \in ListsUpTo(catalogue, MaxCountries)
    /\ cgRest = <<>> /\ cgIdx = 1
    /\ cgRows = <<>> /\ cgEmitted = <<>> /\ cgDerived = {} /\ cgUploads = {}
    /\ cgStorage \in {{}, {S(<<"U", "S", ".", "p", "n", "g">>)}}
    /\ cgFile = NoFile /\ cgFile1 = NoFile /\ cgEmitted1 = <<>>
    /\ cgLast = NoAttempt

CgFail_partial(reason, attempt) ==
    /\ cgPc' = "failed"
    /\ cgError' = reason
    /\ cgLast' = attempt
    /\ cgFile' = write_insert_statement("public.countries", CountryColumns, SortRows(cgRows), "iso2")
    /\ UNCHANGED <<cgIdx, cgRows, cgEmitted>>

\* generate() raises, lines 86-175: nothing was written
CgFail(reason, attempt) ==
    /\ cgPc' = "failed"
    /\ cgError' = reason
    /\ cgLast' = attempt
    /\ UNCHANGED <<cgIdx, cgRows, cgEmitted, cgFile>>

\* generate(), lines 85-115: get_all_countries() raises or returns the payloads,
\* which are then filtered
FetchCountries ==
    /\ cgPc = "start"
    /\ \E fetchOk \in BOOLEAN :
        IF fetchOk
        THEN /\ cgRest' = SelectSeq(cgFetched, NotIgnored)
             /\ cgPc' = "loop"
             /\ UNCHANGED <<cgError, cgIdx, cgRows, cgEmitted, cgFile, cgLast>>
        ELSE /\ CgFail("fetch", cgLast)
             /\ UNCHANGED cgRest
    /\ UNCHANGED <<cgRun, cgFetched, cgDerived, cgUploads, cgStorage, cgFile1, cgEmitted1>>

\* generate(), lines 117-175: one iteration of the loop over rest_countries
ProcessCountry ==
    /\ cgPc = "loop"
    /\ cgIdx <= Len(cgRest)
    /\ LET rest_country == cgRest[cgIdx] IN
       /\ cgDerived' = cgDerived \cup {rest_country}
       /\ IF ~CanConvert(rest_country)
          THEN /\ CgFail("convert", [step |-> "convert", signedOk |-> FALSE, palette |-> None])
               /\ UNCHANGED <<cgStorage, cgUploads>>
          ELSE \E probeError \in BOOLEAN, transfer \in TransferOutcomes,
                  signedOk \in BOOLEAN, palette \in PaletteOutcomes :
               LET country == to_country_data(rest_country)
                   original_flag_url == IF rest_country.png /= <<>> THEN rest_country.png
                                        ELSE rest_country.svg
                   storage_path == country.iso2 \o DotPng
                   up == get_or_upload_from_url(cgStorage, FlagsBucketName, storage_path,
                                                probeError, transfer)
                   background_hex == get_muted_color_with_alpha(palette, 80)
                   done == [country EXCEPT !.flag_full_path = up.full_path,
                                           !.background_hex = background_hex]
               IN  IF original_flag_url = <<>> \/ ~up.ok \/ up.full_path = <<>>
                   THEN /\ CgFail("flag", [step |-> "flag", signedOk |-> FALSE, palette |-> None])
                        /\ UNCHANGED <<cgStorage, cgUploads>>
                   ELSE /\ cgStorage' = up.bucket
                        /\ cgUploads' = IF up.uploaded THEN cgUploads \cup {storage_path}
                                        ELSE cgUploads
                        /\ IF ~signedOk \/ background_hex = <<>>
                           THEN CgFail("palette", [step |-> "colour", signedOk |-> signedOk,
                                                   palette |-> None])
                           ELSE /\ cgRows' = Append(cgRows, RenderRow(done))
                                /\ cgEmitted' = Append(cgEmitted,
                                       [payload |-> rest_country, country |-> done,
                                        palette |-> palette])
                                /\ cgIdx' = cgIdx + 1
                                /\ cgLast' = [step |-> "colour", signedOk |-> TRUE,
                                              palette |-> palette]
                                /\ UNCHANGED <<cgPc, cgError, cgFile>>
    /\ UNCHANGED <<cgRun, cgFetched, cgRest, cgFile1, cgEmitted1>>

\* generate(), lines 177-196: rows.sort() and write_insert_statement
WriteFile ==
    /\ cgPc = "loop"
    /\ cgIdx > Len(cgRest)
    /\ cgRows' = SortRows(cgRows)
    /\ cgFile' = write_insert_statement("public.countries", CountryColumns, cgRows', "iso2")
    /\ cgPc' = "done"
    /\ UNCHANGED <<cgError, cgRun, cgFetched, cgRest, cgIdx, cgEmitted, cgDerived, cgUploads,
                   cgStorage, cgFile1, cgEmitted1, cgLast>>

\* the generator is run a second time: the API returns the same countries, in
\* any order; the bucket and the file are as the first run left them
RunAgain ==
    /\ cgPc = "done"
    /\ cgRun = 1
    /\ cgRun' = 2
    /\ cgFile1' = cgFile
    /\ cgEmitted1' = cgEmitted
    /\ cgFetched' \in Reorderings(cgFetched)
    /\ cgPc' = "start"
    /\ cgRest' = <<>> /\ cgIdx' = 1 /\ cgRows' = <<>> /\ cgEmitted' = <<>>
    /\ cgDerived' = {} /\ cgUploads' = {} /\ cgLast' = NoAttempt
    /\ UNCHANGED <<cgError, cgStorage, cgFile>>

(***************************************************************************)
(* Stand-alone application of format_sql_value to a text                   *)
(***************************************************************************)
SqlAlphabet == {Quote, LowerA, Ord(" ")}

InitSqlIdle == sqlPc = "idle" /\ sqlIn = <<>> /\ sqlOut = <<>>

InitSqlInput ==
    /\ sqlPc = "input"
    /\ sqlIn \in TextsUpTo(SqlAlphabet, MaxTextLen)
    /\ sqlOut = <<>>

FormatSqlValue ==
    /\ sqlPc = "input"
    /\ sqlOut' = format_sql_value(sqlIn)
    /\ sqlPc' = "formatted"
    /\ UNCHANGED sqlIn

(***************************************************************************)
(* Stand-alone application of get_muted_color_with_alpha to a palette      *)
(***************************************************************************)
Swatches == {<<0, 0, 0>>, <<255, 255, 255>>, <<10, 171, 9>>, <<171, 9, 200>>}

Palettes == {None} \cup ((Swatches \cup {None}) \X (Swatches \cup {None}))

InitColIdle == colPc = "idle" /\ colPalette = None /\ colAlpha = 0 /\ colOut = <<>>

InitColInput ==
    /\ colPc = "input"
    /\ colPalette \in Palettes
    /\ colAlpha \in 0..100
    /\ colOut = <<>>

GetMutedColor ==
    /\ colPc = "input"
    /\ colOut' = get_muted_color_with_alpha(colPalette, colAlpha)
    /\ colPc' = "done"
    /\ UNCHANGED <<colPalette, colAlpha>>

\* upload_file, lines 129-138: the object is written whether or not it was there
\* (upsert)
upload_file(bucket, storage_path) == bucket \cup {storage_path}

\* what the temporary file and upload_file may do
UploadOutcomes == {"ok", "write_failed", "upload_failed"}

\* download_file(bucket, storage_path): the bytes of the object (TRUE), or a
\* failure (FALSE) when the object is missing or the transfer fails
DownloadOutcomes == {"ok", "failed"}
download_file(bucket, storage_path, outcome) == storage_path \in bucket /\ outcome = "ok"

(***************************************************************************)
(* PodcastScriptGenerator and PodcastAudioGenerator: one unit per country, *)
(* run by the workers of a ThreadPoolExecutor; generate() collects the     *)
(* futures with as_completed                                               *)
(***************************************************************************)
MAX_WORKERS == 5

\* the rows of the countries table get_all() returns, by their iso2
CountryRows == <<S(<<"U", "S">>), S(<<"T", "D">>), S(<<"M", "O">>), S(<<"X", "K">>), S(<<"F", "R">>)>>
Countries == {CountryRows[i] : i \in 1..NumCountries}

DotTxt == S(<<".", "t", "x", "t">>)
DotWav == S(<<".", "w", "a", "v">>)
ScriptPath(iso2) == iso2 \o DotTxt
AudioPath(iso2) == iso2 \o DotWav

\* a future and the unit behind it.  future: "pending", "running", "finished"
\* or "cancelled"; at: the position of _process_country; success, skipped: the
\* tuple it returns; why: the branch that returned
\* found: the objects the probes of the unit found; tts: what happened inside the
\* TTS call of the unit; error: the words in the text of the error the unit caught;
\* script: the text get_script_for_country returned to the unit
NewUnit ==
    [future |-> "none", at |-> "entry", success |-> FALSE, skipped |-> FALSE, why |-> "none",
     found |-> {}, tts |-> [type |-> "none", words |-> {}], error |-> {}, script |-> <<>>]
Submitted == [NewUnit EXCEPT !.future = "pending"]
Returned(u, success, skipped, why) ==
    [u EXCEPT !.future = "finished", !.at = "returned", !.success = success,
              !.skipped = skipped, !.why = why]

NoUnits == [c \in Countries |-> NewUnit]
Running(futures) == {c \in Countries : futures[c].future = "running"}
Pending(futures) == {c \in Countries : futures[c].future = "pending"}

check_quota_never(flag) == FALSE

\* _check_quota_exceeded
check_quota_exceeded(flag) == flag

\* an error, by its type and the words of interest its text contains
Error(type, words) == [type |-> type, words |-> words]
contains(error, word) == word \in error.words

\* generate_podcast_audio, lines 127-134: what the client raises for an error
\* raised inside it
WrapTtsError(e) ==
    IF e.type = "RuntimeError" THEN e
    ELSE IF contains(e, "quota") \/ contains(e, "limit") \/ contains(e, "rate")
         THEN Error("RuntimeError", e.words \cup {"quota", "rate", "limit"})
         ELSE Error("RuntimeError", e.words)

\* what the TTS call may do: return audio, return no audio chunk (line 107), or
\* fail with an error of the API
NoAudioData == Error("RuntimeError", {})
TtsErrors == {Error("Exception", w) : w \in {{}, {"quota"}, {"limit"}, {"rate"}}}
AudioData == [type |-> "audio", words |-> {}]
\* what happens inside the try block of generate_podcast_audio: chunks arrive, none
\* arrives (line 107), or the API raises
TtsOutcomes == {AudioData, NoAudioData} \cup TtsErrors

\* _process_country, lines 135-137: the test that sets the flag
IsQuotaError(e) == e.type = "RuntimeError" /\ (contains(e, "quota") \/ contains(e, "limit"))

InitPgNoRun ==
    /\ pgPc = "idle" /\ pgRun = 1
    /\ units = NoUnits
    /\ quota_exceeded = FALSE
    /\ scripts = {}
    /\ processed_countries = 0 /\ uploaded_count = 0 /\ skipped_count = 0 /\ failed_count = 0
    /\ pgYielded = {} /\ pgCalls = {} /\ pgLate = {} /\ pgProduced1 = {}

InitPgIdle == InitPgNoRun /\ audio = {}

\* a run of the audio generator about to start: the scripts of all countries,
\* or of all but one, are in storage; the audio bucket is empty or holds one file
InitAudio ==
    /\ pgPc = "start" /\ pgRun = 1
    /\ units = NoUnits
    /\ quota_exceeded = FALSE
    /\ scripts \in {{ScriptPath(c) : c \in Countries},
                    {ScriptPath(c) : c \in Countries \ {CountryRows[NumCountries]}}}
    /\ audio \in {{}, {AudioPath(CountryRows[1])}}
    /\ processed_countries = 0 /\ uploaded_count = 0 /\ skipped_count = 0 /\ failed_count = 0
    /\ pgYielded = {} /\ pgCalls = {} /\ pgLate = {} /\ pgProduced1 = {}

\* a run of the script generator about to start
InitScript ==
    /\ pgPc = "start" /\ pgRun = 1
    /\ units = NoUnits
    /\ quota_exceeded = FALSE
    /\ scripts \in {{}, {ScriptPath(CountryRows[1])}}
    /\ audio = {}
    /\ processed_countries = 0 /\ uploaded_count = 0 /\ skipped_count = 0 /\ failed_count = 0
    /\ pgYielded = {} /\ pgCalls = {} /\ pgLate = {} /\ pgProduced1 = {}

\* generate(): the tally of one result (lines 211-220 of the audio generator,
\* 152-161 of the script generator)
Tally(c) ==
    /\ processed_countries' = processed_countries + 1
    /\ skipped_count' = IF units[c].skipped THEN skipped_count + 1 ELSE skipped_count
    /\ uploaded_count' = IF ~units[c].skipped /\ units[c].success
                         THEN uploaded_count + 1 ELSE uploaded_count
    /\ failed_count' = IF ~units[c].skipped /\ ~units[c].success
                       THEN failed_count + 1 ELSE failed_count
    /\ pgYielded' = pgYielded \cup {c}

\* generate(), up to the submission of one unit per country
Submit ==
    /\ pgPc = "start"
    /\ units' = [c \in Countries |-> Submitted]
    /\ pgPc' = "collect"
    /\ UNCHANGED <<pgRun, quota_exceeded, scripts, audio, processed_countries, uploaded_count,
                   skipped_count, failed_count, pgYielded, pgCalls, pgLate, pgProduced1>>

\* a worker of the pool takes a pending unit
CanBegin(c) ==
    /\ pgPc \in {"collect", "exit"}
    /\ units[c].future = "pending"
    /\ Cardinality(Running(units)) < MAX_WORKERS

Shutdown_waitsforcancelled ==
    /\ pgPc = "exit"
    /\ \A c \in Countries : units[c].future = "finished"
    /\ pgPc' = "done"
    /\ UNCHANGED <<pgRun, units, quota_exceeded, scripts, audio, processed_countries,
                   uploaded_count, skipped_count, failed_count, pgYielded, pgCalls, pgLate,
                   pgProduced1>>

\* the with block is left (shutdown(wait=True)) once no unit is pending or
\* running; a cancelled unit is never run and is not waited for
Shutdown ==
    /\ pgPc = "exit"
    /\ Running(units) = {} /\ Pending(units) = {}
    /\ pgPc' = "done"
    /\ UNCHANGED <<pgRun, units, quota_exceeded, scripts, audio, processed_countries,
                   uploaded_count, skipped_count, failed_count, pgYielded, pgCalls, pgLate,
                   pgProduced1>>

(***************************************************************************)
(* PodcastAudioGenerator                                                   *)
(***************************************************************************)
\* _process_country, lines 78-93: the two probes
AudioBegin(c) ==
    /\ CanBegin(c)
    /\ \E audioProbeError, scriptProbeError \in BOOLEAN :
          IF file_exists(audio, AudioPath(c), audioProbeError)
          THEN /\ units' = [units EXCEPT ![c] = [Returned(@, FALSE, TRUE, "exists")
                                                    EXCEPT !.found = {"audio"}]]
               /\ pgCalls' = pgCalls \cup {<<c, "probe_audio">>}
          ELSE IF ~file_exists(scripts, ScriptPath(c), scriptProbeError)
          THEN /\ units' = [units EXCEPT ![c] = Returned(@, FALSE, TRUE, "noscript")]
               /\ pgCalls' = pgCalls \cup {<<c, "probe_audio">>, <<c, "probe_script">>}
          ELSE /\ units' = [units EXCEPT ![c].future = "running", ![c].at = "quota_check",
                                         ![c].found = {"script"}]
               /\ pgCalls' = pgCalls \cup {<<c, "probe_audio">>, <<c, "probe_script">>}
    /\ UNCHANGED <<pgPc, pgRun, quota_exceeded, scripts, audio, processed_countries,
                   uploaded_count, skipped_count, failed_count, pgYielded, pgLate, pgProduced1>>

AudioCheckQuota_unchecked(c) ==
    /\ units[c].future = "running" /\ units[c].at = "quota_check"
    /\ pgCalls' = pgCalls \cup {<<c, "download">>}
    /\ \E outcome \in DownloadOutcomes :
          units' = IF download_file(scripts, ScriptPath(c), outcome)
                   THEN [units EXCEPT ![c].at = "tts"]
                   ELSE [units EXCEPT ![c] = Returned(@, FALSE, FALSE, "download")]
    /\ UNCHANGED <<pgPc, pgRun, quota_exceeded, scripts, audio, processed_countries,
                   uploaded_count, skipped_count, failed_count, pgYielded, pgLate, pgProduced1>>

\* _process_country, lines 95-111: the quota check, then the download of the script
AudioCheckQuota(c) ==
    /\ units[c].future = "running" /\ units[c].at = "quota_check"
    /\ IF check_quota_exceeded(quota_exceeded)
       THEN /\ units' = [units EXCEPT ![c] = Returned(@, FALSE, TRUE, "quota")]
            /\ UNCHANGED pgCalls
       ELSE /\ pgCalls' = pgCalls \cup {<<c, "download">>}
            /\ \E outcome \in DownloadOutcomes :
                  units' = IF download_file(scripts, ScriptPath(c), outcome)
                           THEN [units EXCEPT ![c].at = "tts"]
                           ELSE [units EXCEPT ![c] = Returned(@, FALSE, FALSE, "download")]
    /\ UNCHANGED <<pgPc, pgRun, quota_exceeded, scripts, audio, processed_countries,
                   uploaded_count, skipped_count, failed_count, pgYielded, pgLate, pgProduced1>>

AudioTts_emptyaudio(c) ==
    /\ units[c].future = "running" /\ units[c].at = "tts"
    /\ pgCalls' = pgCalls \cup {<<c, "tts">>}
    /\ \E outcome \in TtsOutcomes :
          IF outcome \in {AudioData, NoAudioData}
          THEN /\ units' = [units EXCEPT ![c].at = "upload", ![c].tts = outcome]
               /\ UNCHANGED <<quota_exceeded, pgLate>>
          ELSE IF IsQuotaError(WrapTtsError(outcome))
          THEN /\ quota_exceeded' = TRUE
               /\ pgLate' = IF quota_exceeded THEN pgLate ELSE Pending(units)
               /\ units' = [units EXCEPT ![c] = [Returned(@, FALSE, FALSE, "tts_quota")
                                                    EXCEPT !.tts = outcome, !.error = outcome.words]]
          ELSE /\ units' = [units EXCEPT ![c] = [Returned(@, FALSE, FALSE, "tts")
                                                    EXCEPT !.tts = outcome, !.error = outcome.words]]
               /\ UNCHANGED <<quota_exceeded, pgLate>>
    /\ UNCHANGED <<pgPc, pgRun, scripts, audio, processed_countries, uploaded_count,
                   skipped_count, failed_count, pgYielded, pgProduced1>>

\* _process_country, lines 113-116 and 135-153: the TTS call (what happens inside
\* the client, then its wrapping of the error) and the handlers
AudioTts(c) ==
    /\ units[c].future = "running" /\ units[c].at = "tts"
    /\ pgCalls' = pgCalls \cup {<<c, "tts">>}
    /\ \E outcome \in TtsOutcomes :
          IF outcome = AudioData
          THEN /\ units' = [units EXCEPT ![c].at = "upload", ![c].tts = outcome]
               /\ UNCHANGED <<quota_exceeded, pgLate>>
          ELSE IF IsQuotaError(WrapTtsError(outcome))
          THEN /\ quota_exceeded' = TRUE
               /\ pgLate' = IF quota_exceeded THEN pgLate ELSE Pending(units)
               /\ units' = [units EXCEPT ![c] = [Returned(@, FALSE, FALSE, "tts_quota")
                                                    EXCEPT !.tts = outcome, !.error = outcome.words]]
          ELSE /\ units' = [units EXCEPT ![c] = [Returned(@, FALSE, FALSE, "tts")
                                                    EXCEPT !.tts = outcome, !.error = outcome.words]]
               /\ UNCHANGED <<quota_exceeded, pgLate>>
    /\ UNCHANGED <<pgPc, pgRun, scripts, audio, processed_countries, uploaded_count,
                   skipped_count, failed_count, pgYielded, pgProduced1>>

\* _process_country, lines 118-133 and 135-153: the temporary file and the upload;
\* upload_file raises Exception("Failed to upload ...: {e}") around the error of
\* the storage API, whose text may speak of a quota
AudioUpload(c) ==
    /\ units[c].future = "running" /\ units[c].at = "upload"
    /\ \E outcome \in UploadOutcomes, words \in {{}, {"quota"}} :
          CASE outcome = "write_failed" ->
                   /\ units' = [units EXCEPT ![c] = Returned(@, FALSE, FALSE, "write")]
                   /\ UNCHANGED <<audio, pgCalls, quota_exceeded, pgLate>>
            [] outcome = "upload_failed" ->
                   /\ units' = [units EXCEPT ![c] = [Returned(@, FALSE, FALSE, "upload")
                                                       EXCEPT !.error = words]]
                   /\ pgCalls' = pgCalls \cup {<<c, "upload">>}
                   /\ quota_exceeded' = (quota_exceeded \/ IsQuotaError(Error("Exception", words)))
                   /\ pgLate' = IF quota_exceeded' /\ ~quota_exceeded THEN Pending(units) ELSE pgLate
                   /\ UNCHANGED audio
            [] outcome = "ok" ->
                   /\ units' = [units EXCEPT ![c] = Returned(@, TRUE, FALSE, "uploaded")]
                   /\ pgCalls' = pgCalls \cup {<<c, "upload">>}
                   /\ audio' = upload_file(audio, AudioPath(c))
                   /\ UNCHANGED <<quota_exceeded, pgLate>>
    /\ UNCHANGED <<pgPc, pgRun, scripts, processed_countries, uploaded_count,
                   skipped_count, failed_count, pgYielded, pgProduced1>>

\* generate(), lines 200-226: as_completed yields a finished future; the flag is
\* consulted first, and when it is set the futures not yet done are cancelled
\* (a running one cannot be) and the loop is left
AudioCollect ==
    /\ pgPc = "collect"
    /\ \E c \in Countries \ pgYielded :
          /\ units[c].future = "finished"
          /\ IF check_quota_exceeded(quota_exceeded)
             THEN /\ units' = [d \in Countries |->
                                  IF units[d].future = "pending"
                                  THEN [units[d] EXCEPT !.future = "cancelled"]
                                  ELSE units[d]]
                  /\ pgPc' = "exit"
                  /\ UNCHANGED <<processed_countries, uploaded_count, skipped_count,
                                 failed_count, pgYielded>>
             ELSE /\ Tally(c)
                  /\ pgPc' = IF pgYielded' = Countries THEN "exit" ELSE "collect"
                  /\ UNCHANGED units
    /\ UNCHANGED <<pgRun, quota_exceeded, scripts, audio, pgCalls, pgLate, pgProduced1>>

(***************************************************************************)
(* PodcastScriptGenerator                                                  *)
(***************************************************************************)
\* str.strip(): the text without its leading and trailing whitespace (tab, line
\* feed, carriage return, space)
strip(content) ==
    LET inner == {i \in 1..Len(content) : content[i] \notin {9, 10, 13, 32}}
    IN  IF inner = {} THEN <<>>
        ELSE SubSeq(content, CHOOSE i \in inner : \A j \in inner : i <= j,
                             CHOOSE i \in inner : \A j \in inner : i >= j)

\* what _call_api may do for get_script_for_country: raise, or return a content
\* (nothing, whitespace only, a script, a script between whitespace)
LlmOutcomes ==
    {[raised |-> TRUE, content |-> <<>>]} \cup
    {[raised |-> FALSE, content |-> t] :
        t \in {<<>>, <<32>>, <<10, 32>>, S(<<"H", "i">>), <<32>> \o S(<<"H", "i">>) \o <<10>>}}

\* _process_country, lines 60-67: the probe
ScriptBegin(c) ==
    /\ CanBegin(c)
    /\ pgCalls' = pgCalls \cup {<<c, "probe_script">>}
    /\ \E probeError \in BOOLEAN :
          IF file_exists(scripts, ScriptPath(c), probeError)
          THEN units' = [units EXCEPT ![c] = Returned(@, FALSE, TRUE, "exists")]
          ELSE units' = [units EXCEPT ![c].future = "running", ![c].at = "llm"]
    /\ UNCHANGED <<pgPc, pgRun, quota_exceeded, scripts, audio, processed_countries,
                   uploaded_count, skipped_count, failed_count, pgYielded, pgLate, pgProduced1>>

\* _process_country, lines 69-80 and 99-103: the LLM call, and parse_response
\* (podcast_script_assignment.py, lines 158-160) on its content
ScriptLlm(c) ==
    /\ units[c].future = "running" /\ units[c].at = "llm"
    /\ pgCalls' = pgCalls \cup {<<c, "llm">>}
    /\ \E outcome \in LlmOutcomes :
          units' = IF outcome.raised
                   THEN [units EXCEPT ![c] = Returned(@, FALSE, FALSE, "llm")]
                   ELSE IF outcome.content = <<>> \/ strip(outcome.content) = <<>>
                   THEN [units EXCEPT ![c] = Returned(@, FALSE, FALSE, "empty")]
                   ELSE [units EXCEPT ![c].at = "upload", ![c].script = strip(outcome.content)]
    /\ UNCHANGED <<pgPc, pgRun, quota_exceeded, scripts, audio, processed_countries,
                   uploaded_count, skipped_count, failed_count, pgYielded, pgLate, pgProduced1>>

\* _process_country, lines 82-103: the temporary file and the upload
ScriptUpload(c) ==
    /\ units[c].future = "running" /\ units[c].at = "upload"
    /\ \E outcome \in UploadOutcomes :
          CASE outcome = "write_failed" ->
                   /\ units' = [units EXCEPT ![c] = Returned(@, FALSE, FALSE, "write")]
                   /\ UNCHANGED <<scripts, pgCalls>>
            [] outcome = "upload_failed" ->
                   /\ units' = [units EXCEPT ![c] = Returned(@, FALSE, FALSE, "upload")]
                   /\ pgCalls' = pgCalls \cup {<<c, "upload">>}
                   /\ UNCHANGED scripts
            [] outcome = "ok" ->
                   /\ units' = [units EXCEPT ![c] = Returned(@, TRUE, FALSE, "uploaded")]
                   /\ pgCalls' = pgCalls \cup {<<c, "upload">>}
                   /\ scripts' = upload_file(scripts, ScriptPath(c))
    /\ UNCHANGED <<pgPc, pgRun, quota_exceeded, audio, processed_countries, uploaded_count,
                   skipped_count, failed_count, pgYielded, pgLate, pgProduced1>>

\* generate(), lines 149-167: as_completed yields a finished future
ScriptCollect ==
    /\ pgPc = "collect"
    /\ \E c \in Countries \ pgYielded :
          /\ units[c].future = "finished"
          /\ Tally(c)
          /\ pgPc' = IF pgYielded' = Countries THEN "exit" ELSE "collect"
    /\ UNCHANGED <<pgRun, units, quota_exceeded, scripts, audio, pgCalls, pgLate, pgProduced1>>

\* the script generator is run a second time against the storage the first run left
ScriptRunAgain ==
    /\ pgPc = "done"
    /\ pgRun = 1
    /\ pgRun' = 2
    /\ pgProduced1' = {c \in Countries : units[c].success}
    /\ pgPc' = "start"
    /\ units' = NoUnits
    /\ processed_countries' = 0 /\ uploaded_count' = 0 /\ skipped_count' = 0 /\ failed_count' = 0
    /\ pgYielded' = {} /\ pgCalls' = {}
    /\ UNCHANGED <<quota_exceeded, scripts, audio, pgLate>>

(***************************************************************************)
(* CountryPodcastGenerator: the audio files of the bucket podcasts become  *)
(* rows of country_podcasts                                                *)
(***************************************************************************)
\* names the listing of the bucket may hold
FileNames == {S(<<"U", "S", ".", "w", "a", "v">>), S(<<"u", "s", ".", "w", "a", "v">>), S(<<"T", "D", ".", "w", "a", "v">>), S(<<"Z", "Z", ".", "w", "a", "v">>), S(<<"U", "S", "A", ".", "w", "a", "v">>), S(<<"a", ".", "t", "x", "t">>)}

\* lines 278-279: filename.endswith(".wav")
EndsWithWav(filename) ==
    /\ Len(filename) >= Len(DotWav)
    /\ SubSeq(filename, Len(filename) - Len(DotWav) + 1, Len(filename)) = DotWav

IsLetter(code) == (code >= UpperA /\ code <= UpperZ) \/ (code >= LowerA /\ code <= LowerZ)

\* line 164: re.match(r"^([A-Z]{2})\.wav$", filename, re.IGNORECASE)
MatchesIsoWav(filename) ==
    /\ Len(filename) = 2 + Len(DotWav)
    /\ IsLetter(filename[1]) /\ IsLetter(filename[2])
    /\ upper(SubSeq(filename, 3, Len(filename))) = upper(DotWav)

\* line 171: match.group(1).upper()
IsoOfFile(filename) == upper(SubSeq(filename, 1, 2))

\* get_by_iso2: the row of the countries table, or None
get_by_iso2(iso2) == IF upper(iso2) \in Countries THEN upper(iso2) ELSE None

AudioBucketName == S(<<"p", "o", "d", "c", "a", "s", "t", "s">>)

\* the record built at lines 217-225
PodcastRecord(country, filename) ==
    [country_id |-> country, audio_full_patch |-> AudioBucketName \o Slash \o filename]

\* the listings of a bucket: its names, in any order
Listings(bucket) ==
    {files \in [1..Cardinality(bucket) -> bucket] :
        \A i, j \in 1..Cardinality(bucket) : files[i] = files[j] => i = j}

\* what _process_audio_file does: it returns a record, returns None, or lets an
\* exception out
ReturnsRecord(podcast) == [outcome |-> "record", podcast |-> podcast]
ReturnsNone == [outcome |-> "none", podcast |-> PodcastRecord(None, None)]
Raises == [outcome |-> "raised", podcast |-> PodcastRecord(None, None)]

InitIgIdle ==
    /\ igPc = "idle" /\ igError = "none"
    /\ wav_files = <<>> /\ igIdx = 1
    /\ podcast_records = <<>>
    /\ country_podcasts = <<>>
    /\ ig_processed_count = 0 /\ ig_skipped_count = 0
    /\ igInserted = 0

\* a run of the ingest generator about to start; the table is empty or holds
\* the podcast of US
InitIg ==
    /\ igPc = "start" /\ igError = "none"
    /\ wav_files = <<>> /\ igIdx = 1
    /\ podcast_records = <<>>
    /\ country_podcasts \in {<<>>, <<PodcastRecord(CountryRows[1], AudioPath(CountryRows[1]))>>}
    /\ audio \in {bucket \in SUBSET FileNames : Cardinality(bucket) <= MaxFiles}
    /\ ig_processed_count = 0 /\ ig_skipped_count = 0
    /\ igInserted = 0

\* generate(), lines 252-285: the listing of the bucket, in the order storage
\* answers, and the filter on the suffix
ListFiles ==
    /\ igPc = "start"
    /\ \E listed \in BOOLEAN, files \in Listings(audio) :
          IF ~listed
          THEN igPc' = "done" /\ UNCHANGED wav_files
          ELSE /\ wav_files' = SelectSeq(files, EndsWithWav)
               /\ igPc' = IF wav_files' = <<>> THEN "done" ELSE "loop"
    /\ UNCHANGED <<igError, igIdx, podcast_records, country_podcasts, ig_processed_count,
                   ig_skipped_count, igInserted>>

HasPodcast(table, country) == \E i \in 1..Len(table) : table[i].country_id = country

\* _process_audio_file, lines 164-236
process_audio_file(filename, dbError, checkError, download, wavOk) ==
    IF ~MatchesIsoWav(filename) THEN ReturnsNone
    ELSE IF dbError THEN Raises
    ELSE LET country == get_by_iso2(IsoOfFile(filename))
         IN  IF country = None THEN ReturnsNone
             ELSE IF ~checkError /\ HasPodcast(country_podcasts, country) THEN ReturnsNone
             ELSE IF ~download_file(audio, filename, download) THEN ReturnsNone
             ELSE IF ~wavOk THEN ReturnsNone
             ELSE ReturnsRecord(PodcastRecord(country, filename))

\* generate(), lines 293-299: one iteration of the loop over wav_files
ProcessAudioFile ==
    /\ igPc = "loop"
    /\ igIdx <= Len(wav_files)
    /\ \E dbError, checkError, wavOk \in BOOLEAN, download \in DownloadOutcomes :
          LET result == process_audio_file(wav_files[igIdx], dbError, checkError, download, wavOk)
          IN  IF result.outcome = "raised"
              THEN /\ igPc' = "raised" /\ igError' = "get_by_iso2"
                   /\ UNCHANGED <<igIdx, podcast_records, ig_processed_count, ig_skipped_count>>
              ELSE /\ igIdx' = igIdx + 1
                   /\ podcast_records' = IF result.outcome = "none" THEN podcast_records
                                         ELSE Append(podcast_records, result.podcast)
                   /\ ig_processed_count' = IF result.outcome = "none" THEN ig_processed_count
                                            ELSE ig_processed_count + 1
                   /\ ig_skipped_count' = IF result.outcome = "none" THEN ig_skipped_count + 1
                                          ELSE ig_skipped_count
                   /\ UNCHANGED <<igPc, igError>>
    /\ UNCHANGED <<wav_files, country_podcasts, igInserted>>

\* generate(), lines 301-316: insert_many, or nothing to insert
InsertMany ==
    /\ igPc = "loop"
    /\ igIdx > Len(wav_files)
    /\ IF podcast_records = <<>>
       THEN igPc' = "done" /\ UNCHANGED <<country_podcasts, igInserted>>
       ELSE \E ok \in BOOLEAN :
               IF ok
               THEN /\ country_podcasts' = country_podcasts \o podcast_records
                    /\ igInserted' = Len(podcast_records)
                    /\ igPc' = "done"
               ELSE /\ igPc' = "fallback"
                    /\ UNCHANGED <<country_podcasts, igInserted>>
    /\ igIdx' = 1
    /\ UNCHANGED <<igError, wav_files, podcast_records, ig_processed_count, ig_skipped_count>>

\* what insert() of one record may do; a duplicate-key error needs a row of the
\* same country
InsertOutcomes(record) ==
    {"ok", "error"} \cup
    (IF HasPodcast(country_podcasts, record.country_id) THEN {"duplicate"} ELSE {})

\* generate(), lines 317-331: the records are inserted one by one
InsertOne ==
    /\ igPc = "fallback"
    /\ \E outcome \in InsertOutcomes(podcast_records[igIdx]) :
               CASE outcome = "ok" ->
                        /\ country_podcasts' = Append(country_podcasts, podcast_records[igIdx])
                        /\ igInserted' = igInserted + 1
                        /\ igIdx' = igIdx + 1
                        /\ igPc' = IF igIdx = Len(podcast_records) THEN "done" ELSE "fallback"
                        /\ UNCHANGED <<igError, ig_skipped_count>>
                 [] outcome = "duplicate" ->
                        /\ ig_skipped_count' = ig_skipped_count + 1
                        /\ igIdx' = igIdx + 1
                        /\ igPc' = IF igIdx = Len(podcast_records) THEN "done" ELSE "fallback"
                        /\ UNCHANGED <<igError, country_podcasts, igInserted>>
                 [] outcome = "error" ->
                        /\ igPc' = "raised" /\ igError' = "insert"
                        /\ UNCHANGED <<igIdx, country_podcasts, ig_skipped_count, igInserted>>
    /\ UNCHANGED <<wav_files, podcast_records, ig_processed_count>>

(***************************************************************************)
(* The structured LLM tasks: JSON values as json.loads returns them, and   *)
(* VibeCountryAssignmentClient.parse_response                              *)
(***************************************************************************)
\* a JSON value: null, a string (text), a list (items) or an object (keys, with
\* the value of keys[i] at items[i])
JNull == [kind |-> "null", text |-> <<>>, items |-> <<>>, keys |-> <<>>]
JStr(t) == [kind |-> "str", text |-> t, items |-> <<>>, keys |-> <<>>]
JList(items) == [kind |-> "list", text |-> <<>>, items |-> items, keys |-> <<>>]
JDict(keys, values) == [kind |-> "dict", text |-> <<>>, items |-> values, keys |-> keys]

\* key in d
HasKey(d, key) == \E i \in 1..Len(d.keys) : d.keys[i] = key

\* d.get(key, default)
DictGet(d, key, default) ==
    IF HasKey(d, key) THEN d.items[CHOOSE i \in 1..Len(d.keys) : d.keys[i] = key] ELSE default

\* str(v) for a string or None
PyStr(v) == IF v.kind = "str" THEN v.text ELSE NoneText

\* what a for loop over v visits: the items of a list, the keys of an object
\* (strings, their characters are not modelled), the characters of a string
Iterate(v) ==
    CASE v.kind = "list" -> v.items
      [] v.kind = "dict" -> [i \in 1..Len(v.keys) |-> JStr(<<>>)]
      [] v.kind = "str" -> [i \in 1..Len(v.text) |-> JStr(<<v.text[i]>>)]

\* the content of an LLM answer: text json.loads rejects, or text that holds a value
InvalidJson == [wellformed |-> FALSE, value |-> JNull]
Json(value) == [wellformed |-> TRUE, value |-> value]

\* parse_response, lines 101-109: where the assignments are looked for
FindAssignments(parsed) ==
    IF parsed.kind = "list" THEN [found |-> TRUE, assignments |-> parsed]
    ELSE IF parsed.kind = "dict" /\ HasKey(parsed, "data")
    THEN [found |-> TRUE, assignments |-> DictGet(parsed, "data", JNull)]
    ELSE IF parsed.kind = "dict" /\ HasKey(parsed, "assignments")
    THEN [found |-> TRUE, assignments |-> DictGet(parsed, "assignments", JNull)]
    ELSE [found |-> FALSE, assignments |-> JNull]

\* parse_response, lines 114-135: one assignment; valid is FALSE where the code
\* raises RuntimeError
ConvertAssignment(assignment) ==
    IF assignment.kind /= "dict"
    THEN [valid |-> FALSE, country_iso2 |-> <<>>, vibe_titles |-> <<>>]
    ELSE LET country_iso2 == DictGet(assignment, "country_iso2", JNull)
             vibe_titles == DictGet(assignment, "vibe_titles", JList(<<>>))
             falsy == CASE country_iso2.kind = "null" -> TRUE
                        [] country_iso2.kind = "str" -> country_iso2.text = <<>>
                        [] country_iso2.kind \in {"list", "dict"} -> country_iso2.items = <<>>
         IN  IF falsy \/ vibe_titles.kind /= "list"
             THEN [valid |-> FALSE, country_iso2 |-> <<>>, vibe_titles |-> <<>>]
             ELSE [valid |-> TRUE,
                   country_iso2 |-> upper(PyStr(country_iso2)),
                   vibe_titles |-> [i \in 1..Len(vibe_titles.items) |->
                                       PyStr(vibe_titles.items[i])]]

\* parse_response, lines 99-137 (_parse_json is base_client.py, lines 117-122):
\* outcome is "ok" (result is the list it returns), "RuntimeError" or "TypeError";
\* assignments is the value it looped over
parse_response(content) ==
    LET Parsed(outcome, result, assignments) ==
            [outcome |-> outcome, result |-> result, assignments |-> assignments]
    IN  IF ~content.wellformed THEN Parsed("RuntimeError", <<>>, JNull)
        ELSE LET where == FindAssignments(content.value)
                 assignments == where.assignments
             IN  IF ~where.found THEN Parsed("RuntimeError", <<>>, JNull)
                 ELSE IF assignments.kind \notin {"list", "dict", "str"}
                 THEN Parsed("TypeError", <<>>, assignments)
                 ELSE LET visited == Iterate(assignments)
                          converted == [i \in 1..Len(visited) |-> ConvertAssignment(visited[i])]
                      IN  IF \E i \in 1..Len(visited) : ~converted[i].valid
                          THEN Parsed("RuntimeError", <<>>, assignments)
                          ELSE Parsed("ok",
                                      [i \in 1..Len(visited) |->
                                          [country_iso2 |-> converted[i].country_iso2,
                                           vibe_titles |-> converted[i].vibe_titles]],
                                      assignments)

\* texts of the answers of the LLM to the vibe task: ISO2 codes and vibe titles
Texts ==
    [us_lower |-> S(<<"u", "s">>), us |-> S(<<"U", "S">>), td |-> S(<<"T", "D">>), zz |-> S(<<"Z", "Z">>),
     beach |-> S(<<"B", "e", "a", "c", "h">>), party |-> S(<<"P", "a", "r", "t", "y">>), zen |-> S(<<"Z", "e", "n">>)]

\* items an answer may hold: two assignments as the prompt asks for them, an item
\* without vibe_titles, with vibe_titles null or a string, without country_iso2,
\* with an empty country_iso2, with a null title, and a bare string
AssignmentItems ==
    {JDict(<<"country_iso2", "vibe_titles">>,
           <<JStr(Texts.us_lower), JList(<<JStr(Texts.beach), JStr(Texts.zen)>>)>>),
     JDict(<<"country_iso2", "vibe_titles">>, <<JStr(Texts.td), JList(<<JStr(Texts.party)>>)>>),
     JDict(<<"country_iso2">>, <<JStr(Texts.us)>>),
     JDict(<<"country_iso2", "vibe_titles">>, <<JStr(Texts.us), JNull>>),
     JDict(<<"country_iso2", "vibe_titles">>, <<JStr(Texts.us), JStr(Texts.beach)>>),
     JDict(<<"vibe_titles">>, <<JList(<<JStr(Texts.beach)>>)>>),
     JDict(<<"country_iso2", "vibe_titles">>, <<JStr(<<>>), JList(<<>>)>>),
     JDict(<<"country_iso2", "vibe_titles">>, <<JStr(Texts.td), JList(<<JNull>>)>>),
     JStr(Texts.us)}

\* contents of an answer: invalid JSON, scalars, and lists of up to MaxItems items,
\* bare or under a key
Contents ==
    LET lists == UNION {[1..n -> AssignmentItems] : n \in 0..MaxItems}
    IN  {InvalidJson, Json(JNull), Json(JStr(<<>>)), Json(JDict(<<"assignments">>, <<JNull>>)),
         Json(JDict(<<"assignments">>, <<JStr(<<>>)>>))}
        \cup {Json(JList(l)) : l \in lists}
        \cup {Json(JDict(<<key>>, <<JList(l)>>)) :
                 key \in {"assignments", "data", "result"}, l \in lists}
        \cup {Json(JDict(<<"assignments", "note">>, <<JList(l), JNull>>)) : l \in lists}

\* every part of the model but one is idle
InitOthersIdle(own) ==
    /\ own = "ps" \/ (/\ psPc = "idle" /\ psContent = InvalidJson
                      /\ psResult = [outcome |-> "none", result |-> <<>>, assignments |-> JNull])
    /\ own = "vg" \/ (/\ vgPc = "idle" /\ vgError = "none"
                      /\ vgCountries = <<>> /\ vgVibes = <<>> /\ batch_idx = 0
                      /\ all_vibe_country_records = <<>> /\ vibes_country = {}
                      /\ vgAnswers = <<>> /\ vgBulkError = Error("none", {})
                      /\ vgInsertIdx = 1 /\ vgFallback = <<>>)
    /\ own = "st" \/ (/\ stPc = "idle" /\ stBucket = {} /\ stWrites = <<>>
                      /\ stOverwritten = {} /\ stCalls = 0 /\ stLast = <<>>)
    /\ own = "mn" \/ (/\ mnPc = "idle" /\ generators = <<>> /\ mnIdx = 1 /\ mnStarted = <<>>
                      /\ mnActive = "none" /\ mnRaised = "none")
    /\ own = "sb" \/ (/\ sbPc = "idle" /\ sbProcess = 0 /\ sbSecret = 0 /\ sbSubtitle = <<>>)
    /\ own = "lk" \/ (/\ lkPc = <<>> /\ lkLocks = [quota |-> {}, stats |-> {}] /\ lkReg = <<>>)

InitPsInput ==
    /\ psPc = "input" /\ psContent \in Contents
    /\ psResult = [outcome |-> "none", result |-> <<>>, assignments |-> JNull]

ParseResponse ==
    /\ psPc = "input"
    /\ psResult' = parse_response(psContent)
    /\ psPc' = "done"
    /\ UNCHANGED psContent

(***************************************************************************)
(* VibesCountryGenerator: the LLM assigns vibe titles to the countries of  *)
(* a batch; the titles that resolve become rows of vibes_country           *)
(***************************************************************************)
BATCH_SIZE == 20

\* vibe_title_to_id.get(vibe_title), with the dict built at line 70; "" when the
\* title is no key
VibeIdOf(vibes, vibe_title) ==
    IF \E i \in 1..Len(vibes) : vibes[i].title = vibe_title
    THEN vibes[CHOOSE i \in 1..Len(vibes) :
                  /\ vibes[i].title = vibe_title
                  /\ \A j \in 1..Len(vibes) : vibes[j].title = vibe_title => j <= i].id
    ELSE ""

RECURSIVE TitlesToRecords(_, _, _)
TitlesToRecords_allornothing(vibes, country_id, vibe_titles) ==
    IF \E i \in 1..Len(vibe_titles) : VibeIdOf(vibes, vibe_titles[i]) = "" THEN <<>>
    ELSE [i \in 1..Len(vibe_titles) |->
             [country_id |-> country_id, vibe_id |-> VibeIdOf(vibes, vibe_titles[i])]]

\* generate(), lines 112-125: the rows of one assignment
TitlesToRecords(vibes, country_id, vibe_titles) ==
    IF vibe_titles = <<>> THEN <<>>
    ELSE LET vibe_id == VibeIdOf(vibes, Head(vibe_titles))
         IN  (IF vibe_id = "" THEN <<>>
              ELSE <<[country_id |-> country_id, vibe_id |-> vibe_id]>>)
             \o TitlesToRecords(vibes, country_id, Tail(vibe_titles))

\* generate(), lines 104-125: the rows of the assignments of one batch; the id of
\* a country is modelled by its iso2, and country_iso2_to_id (lines 74-76) has a
\* key for every country of the table
RECURSIVE AssignmentsToRecords(_, _, _)
AssignmentsToRecords(vibes, countries, assignments) ==
    IF assignments = <<>> THEN <<>>
    ELSE LET country_iso2 == Head(assignments).country_iso2
         IN  (IF \A i \in 1..Len(countries) : countries[i] /= country_iso2 THEN <<>>
              ELSE TitlesToRecords(vibes, country_iso2, Head(assignments).vibe_titles))
             \o AssignmentsToRecords(vibes, countries, Tail(assignments))

\* what the LLM may answer to a batch: no answer (the API call raises), or a content
VibeAnswers ==
    LET Answer(content) == [answered |-> TRUE, content |-> content]
        Assignments(items) == Answer(Json(JDict(<<"assignments">>, <<JList(items)>>)))
        Item(iso2, titles) ==
            JDict(<<"country_iso2", "vibe_titles">>,
                  <<JStr(iso2), JList([i \in 1..Len(titles) |-> JStr(titles[i])])>>)
    IN  {[answered |-> FALSE, content |-> InvalidJson],
         Answer(InvalidJson),
         Assignments(<<Item(Texts.us_lower, <<Texts.beach, Texts.zen, Texts.party>>),
                       Item(Texts.td, <<Texts.party>>)>>),
         Assignments(<<Item(Texts.td, <<Texts.zen>>)>>),
         Assignments(<<Item(Texts.zz, <<Texts.beach>>),
                       Item(Texts.td, <<Texts.beach, Texts.beach>>)>>),
         Assignments(<<JDict(<<"vibe_titles">>, <<JList(<<JStr(Texts.beach)>>)>>)>>)}

\* what the database answers to an insert: no error, a duplicate key (the text of
\* PostgreSQL names both the duplicate key and the unique constraint), another
\* error of the API, or no row back (the ValueError of insert())
DbErrors ==
    [none |-> Error("none", {}), duplicate |-> Error("APIError", {"duplicate", "unique"}),
     other |-> Error("APIError", {}), norow |-> Error("ValueError", {})]

IsDuplicateError_duplicateonly(e) == contains(e, "duplicate") /\ ~contains(e, "unique")

\* generate(), line 164: the errors the one-by-one fallback swallows
IsDuplicateError(e) == contains(e, "duplicate") \/ contains(e, "unique")

\* what insert_many may do with the records: the composite key of vibes_country
\* rejects a row that is there already or that comes twice
InsertManyOutcomes(table, records) ==
    IF \/ \E i \in 1..Len(records) : records[i] \in table
       \/ \E i, j \in 1..Len(records) : i /= j /\ records[i] = records[j]
    THEN {DbErrors.duplicate, DbErrors.other}
    ELSE {DbErrors.none, DbErrors.other}

\* what insert may do with one record
InsertOneOutcomes(table, record) ==
    IF record \in table THEN {DbErrors.duplicate, DbErrors.other}
    ELSE {DbErrors.none, DbErrors.other, DbErrors.norow}

\* a run of the vibe generator about to start: the tables countries and vibes are
\* empty or filled (the countries fill one batch, or one batch and one country
\* more: QA, QB, ... follow the first rows), vibes_country is empty or holds one row
InitVg ==
    /\ vgPc = "start" /\ vgError = "none"
    /\ vgCountries \in {<<>>, [i \in 1..NumCountries |-> CountryRows[i]],
                        [i \in 1..(BATCH_SIZE + 1) |->
                            IF i <= NumCountries THEN CountryRows[i]
                            ELSE <<Ord("Q"), UpperA + i - NumCountries - 1>>]}
    /\ vgVibes \in {<<>>, <<[id |-> "v1", title |-> Texts.beach],
                            [id |-> "v2", title |-> Texts.party]>>}
    /\ batch_idx = 0
    /\ all_vibe_country_records = <<>>
    /\ vibes_country \in {{}, {[country_id |-> CountryRows[1], vibe_id |-> "v1"]},
                              {[country_id |-> CountryRows[2], vibe_id |-> "v2"]}}
    /\ vgAnswers = <<>>
    /\ vgBulkError = DbErrors.none /\ vgInsertIdx = 1 /\ vgFallback = <<>>

\* generate(), lines 55-86
VgStart ==
    /\ vgPc = "start"
    /\ IF vgCountries = <<>> THEN vgPc' = "done" /\ UNCHANGED vgError
       ELSE IF vgVibes = <<>> THEN vgPc' = "raised" /\ vgError' = "no vibes"
       ELSE vgPc' = "batches" /\ UNCHANGED vgError
    /\ UNCHANGED <<vgCountries, vgVibes, batch_idx, all_vibe_country_records, vibes_country,
                   vgAnswers, vgBulkError, vgInsertIdx, vgFallback>>

VgBatch_insertsatonce ==
    /\ vgPc = "batches"
    /\ batch_idx < Len(vgCountries)
    /\ \E answer \in VibeAnswers :
          LET parsed == parse_response(answer.content)
              batch_records == AssignmentsToRecords(vgVibes, vgCountries, parsed.result)
          IN  /\ vgAnswers' = Append(vgAnswers, answer)
              /\ IF ~answer.answered
                 THEN /\ vgPc' = "raised" /\ vgError' = "llm"
                      /\ UNCHANGED <<batch_idx, all_vibe_country_records, vibes_country>>
                 ELSE IF parsed.outcome /= "ok"
                 THEN /\ vgPc' = "raised" /\ vgError' = "parse"
                      /\ UNCHANGED <<batch_idx, all_vibe_country_records, vibes_country>>
                 ELSE /\ all_vibe_country_records' = all_vibe_country_records \o batch_records
                      /\ vibes_country' = vibes_country \cup
                              {batch_records[i] : i \in 1..Len(batch_records)}
                      /\ batch_idx' = batch_idx + BATCH_SIZE
                      /\ UNCHANGED <<vgPc, vgError>>
    /\ UNCHANGED <<vgCountries, vgVibes, vgBulkError, vgInsertIdx, vgFallback>>

\* generate(), lines 88-138: one batch
VgBatch ==
    /\ vgPc = "batches"
    /\ batch_idx < Len(vgCountries)
    /\ \E answer \in VibeAnswers :
          LET parsed == parse_response(answer.content)
          IN  /\ vgAnswers' = Append(vgAnswers, answer)
              /\ IF ~answer.answered
                 THEN /\ vgPc' = "raised" /\ vgError' = "llm"
                      /\ UNCHANGED <<batch_idx, all_vibe_country_records>>
                 ELSE IF parsed.outcome /= "ok"
                 THEN /\ vgPc' = "raised" /\ vgError' = "parse"
                      /\ UNCHANGED <<batch_idx, all_vibe_country_records>>
                 ELSE /\ all_vibe_country_records' =
                             all_vibe_country_records
                             \o AssignmentsToRecords(vgVibes, vgCountries, parsed.result)
                      /\ batch_idx' = batch_idx + BATCH_SIZE
                      /\ UNCHANGED <<vgPc, vgError>>
    /\ UNCHANGED <<vgCountries, vgVibes, vibes_country, vgBulkError, vgInsertIdx, vgFallback>>

\* generate(), lines 140-156: insert_many, or nothing to insert
VgInsertMany ==
    /\ vgPc = "batches"
    /\ batch_idx >= Len(vgCountries)
    /\ IF all_vibe_country_records = <<>>
       THEN vgPc' = "done" /\ UNCHANGED <<vibes_country, vgBulkError>>
       ELSE \E outcome \in InsertManyOutcomes(vibes_country, all_vibe_country_records) :
               /\ vgBulkError' = outcome
               /\ IF outcome = DbErrors.none
                  THEN /\ vibes_country' = vibes_country \cup
                              {all_vibe_country_records[i] : i \in 1..Len(all_vibe_country_records)}
                       /\ vgPc' = "done"
                  ELSE /\ vgPc' = "fallback"
                       /\ UNCHANGED vibes_country
    /\ UNCHANGED <<vgError, vgCountries, vgVibes, batch_idx, all_vibe_country_records, vgAnswers,
                   vgInsertIdx, vgFallback>>

\* generate(), lines 157-169: the records are inserted one by one
VgInsertOne ==
    /\ vgPc = "fallback"
    /\ \E outcome \in InsertOneOutcomes(vibes_country, all_vibe_country_records[vgInsertIdx]) :
          /\ vgFallback' = Append(vgFallback, [record |-> all_vibe_country_records[vgInsertIdx],
                                                error |-> outcome])
          /\ IF outcome = DbErrors.none
             THEN /\ vibes_country' = vibes_country \cup {all_vibe_country_records[vgInsertIdx]}
                  /\ vgInsertIdx' = vgInsertIdx + 1
                  /\ vgPc' = IF vgInsertIdx = Len(all_vibe_country_records) THEN "done" ELSE "fallback"
                  /\ UNCHANGED vgError
             ELSE IF IsDuplicateError(outcome)
             THEN /\ vgInsertIdx' = vgInsertIdx + 1
                  /\ vgPc' = IF vgInsertIdx = Len(all_vibe_country_records) THEN "done" ELSE "fallback"
                  /\ UNCHANGED <<vibes_country, vgError>>
             ELSE /\ vgPc' = "raised" /\ vgError' = "insert"
                  /\ UNCHANGED <<vibes_country, vgInsertIdx>>
    /\ UNCHANGED <<vgCountries, vgVibes, batch_idx, all_vibe_country_records, vgAnswers,
                   vgBulkError>>

(***************************************************************************)
(* SupabaseStorageClient.get_or_upload_from_url called again and again     *)
(***************************************************************************)
StPaths == {CountryRows[1] \o DotPng, CountryRows[2] \o DotPng}

\* a bucket with some of the objects in it, and no call made yet
InitSt ==
    /\ stPc = "calls" /\ stBucket \in SUBSET StPaths /\ stWrites = [p \in StPaths |-> 0]
    /\ stOverwritten = {} /\ stCalls = 0
    /\ stLast = [called |-> FALSE, storage_path |-> <<>>, present |-> FALSE, ok |-> FALSE,
                 uploaded |-> FALSE, full_path |-> <<>>]

\* one call of get_or_upload_from_url; upload_from_url writes with upsert
GetOrUpload ==
    /\ stPc = "calls"
    /\ stCalls < MaxCalls
    /\ \E storage_path \in StPaths, probeError \in BOOLEAN, transfer \in TransferOutcomes :
          LET r == get_or_upload_from_url(stBucket, FlagsBucketName, storage_path,
                                          probeError, transfer)
          IN  /\ stBucket' = r.bucket
              /\ stWrites' = [stWrites EXCEPT ![storage_path] = @ + (IF r.uploaded THEN 1 ELSE 0)]
              /\ stOverwritten' = stOverwritten \cup
                     (IF r.uploaded /\ storage_path \in stBucket THEN {storage_path} ELSE {})
              /\ stLast' = [called |-> TRUE, storage_path |-> storage_path,
                            present |-> storage_path \in stBucket, ok |-> r.ok,
                            uploaded |-> r.uploaded, full_path |-> r.full_path]
    /\ stCalls' = stCalls + 1
    /\ UNCHANGED stPc

(***************************************************************************)
(* generator.py: main() runs the configured generators                     *)
(***************************************************************************)
\* the generators main() can be configured with, lines 37-47
AllGenerators ==
    <<"CountriesGenerator", "VibesCountryGenerator", "CountryBestTimeGenerator",
      "CountryOverviewGenerator", "GeneralAISuggestGenerator",
      "CountrySpecificAISuggestGenerator", "PodcastScriptGenerator", "PodcastAudioGenerator">>

\* the list with the entries at the positions of chosen left in
RECURSIVE Configured(_, _)
Configured(chosen, i) ==
    IF i > Len(AllGenerators) THEN <<>>
    ELSE (IF i \in chosen THEN <<AllGenerators[i]>> ELSE <<>>) \o Configured(chosen, i + 1)

InitMn ==
    /\ mnPc = "loop"
    /\ \E chosen \in SUBSET (1..Len(AllGenerators)) : generators = Configured(chosen, 1)
    /\ mnIdx = 1 /\ mnStarted = <<>>
    /\ mnActive = "none" /\ mnRaised = "none"

\* main(), lines 51-64: the next generator is taken and its generate() is entered
MainStart ==
    /\ mnPc = "loop"
    /\ mnActive = "none"
    /\ mnIdx <= Len(generators)
    /\ mnActive' = generators[mnIdx]
    /\ mnStarted' = Append(mnStarted, generators[mnIdx])
    /\ UNCHANGED <<mnPc, generators, mnIdx, mnRaised>>

OnException_continue(generator) ==
    /\ mnPc' = "loop"
    /\ mnRaised' = generator
    /\ mnIdx' = mnIdx + 1

\* main(), lines 65-67: the exception is printed and raised again
OnException(generator) ==
    /\ mnPc' = "raised"
    /\ mnRaised' = generator
    /\ UNCHANGED mnIdx

\* main(), lines 62-67: generate() returns or raises
MainReturn ==
    /\ mnPc = "loop"
    /\ mnActive /= "none"
    /\ \E raised \in BOOLEAN :
          IF raised THEN OnException(mnActive)
          ELSE mnIdx' = mnIdx + 1 /\ UNCHANGED <<mnPc, mnRaised>>
    /\ mnActive' = "none"
    /\ UNCHANGED <<generators, mnStarted>>

\* main(), line 69: the loop is over
MainEnd ==
    /\ mnPc = "loop"
    /\ mnActive = "none"
    /\ mnIdx > Len(generators)
    /\ mnPc' = "done"
    /\ UNCHANGED <<generators, mnIdx, mnStarted, mnActive, mnRaised>>

(***************************************************************************)
(* CountryPodcastGenerator: the subtitle of a podcast, chosen in one       *)
(* process and in another                                                  *)
(***************************************************************************)
\* the rotation, lines 25-31
SUBTITLES == <<"What to know before you go", "Essential travel insights",
               "Your guide to exploring", "Discover what makes it special",
               "Insights for your journey">>

\* hash() of a str: a function of the text and of the secret the interpreter draws
\* when the process starts (PYTHONHASHSEED); equal texts hash equally within one
\* process; hash values are kept to 16 bits
RECURSIVE hash(_, _)
hash(text, secret) ==
    IF text = <<>> THEN secret
    ELSE (hash(SubSeq(text, 1, Len(text) - 1), secret) * 33 + text[Len(text)]) % 65536

\* _get_subtitle, line 150
get_subtitle(index) == SUBTITLES[(index % Len(SUBTITLES)) + 1]

InitSb ==
    /\ sbPc = "off" /\ sbProcess = 0 /\ sbSecret = 0
    /\ sbSubtitle = [p \in 1..MaxProcesses |-> [iso2 \in Countries |-> "none"]]

\* a process starts: the interpreter draws its hash secret
StartProcess ==
    /\ sbPc \in {"off", "running"}
    /\ sbProcess < MaxProcesses
    /\ sbProcess' = sbProcess + 1
    /\ sbSecret' \in 0..MaxSecret
    /\ sbPc' = "running"
    /\ UNCHANGED sbSubtitle

\* _process_audio_file, lines 210-214, for the file of one country
ChooseSubtitle ==
    /\ sbPc = "running"
    /\ \E iso2 \in Countries :
          sbSubtitle' = [sbSubtitle EXCEPT ![sbProcess][iso2] =
                            get_subtitle(hash(iso2, sbSecret) % Len(SUBTITLES))]
    /\ UNCHANGED <<sbPc, sbProcess, sbSecret>>

(***************************************************************************)
(* The threads of PodcastAudioGenerator.generate(): thread 0 is the main   *)
(* thread with the as_completed loop, the others are workers of the pool   *)
(* inside _process_country; the flag and the counters are read and written *)
(* one step at a time                                                      *)
(***************************************************************************)
acquire_unguarded(lock, t) == UNCHANGED lkLocks

\* with self._quota_lock / with self._stats_lock: entered when the lock is free
acquire(lock, t) ==
    /\ lkLocks[lock] = {}
    /\ lkLocks' = [lkLocks EXCEPT ![lock] = {t}]

\* generate() is about to submit the units: no lock is held (lines 34-36), the
\* flag is down and the counters are zero (lines 183-186)
InitLk ==
    /\ lkPc = [t \in 0..MaxUnits |-> IF t = 0 THEN "wait" ELSE "check"]
    /\ lkLocks = [quota |-> {}, stats |-> {}]
    /\ lkReg = [t \in 0..MaxUnits |-> [flag |-> FALSE, n |-> 0, result |-> "none"]]

\* _check_quota_exceeded, lines 52-59, called by thread t
CheckQuotaExceeded(t) ==
    /\ \/ /\ lkPc[t] = "check"
          /\ acquire("quota", t)
          /\ lkPc' = [lkPc EXCEPT ![t] = "check_read"]
          /\ UNCHANGED lkReg
       \/ /\ lkPc[t] = "check_read"
          /\ lkReg' = [lkReg EXCEPT ![t].flag = quota_exceeded]
          /\ lkPc' = [lkPc EXCEPT ![t] = "check_return"]
          /\ UNCHANGED lkLocks
       \/ /\ lkPc[t] = "check_return"
          /\ lkLocks' = [lkLocks EXCEPT !.quota = @ \ {t}]
          /\ lkPc' = [lkPc EXCEPT ![t] = "checked"]
          /\ UNCHANGED lkReg
    /\ UNCHANGED <<quota_exceeded, processed_countries, uploaded_count, skipped_count,
                   failed_count>>

\* _set_quota_exceeded, lines 60-63, called by thread t
SetQuotaExceeded(t) ==
    /\ \/ /\ lkPc[t] = "set"
          /\ acquire("quota", t)
          /\ lkPc' = [lkPc EXCEPT ![t] = "set_write"]
          /\ UNCHANGED <<lkReg, quota_exceeded>>
       \/ /\ lkPc[t] = "set_write"
          /\ quota_exceeded' = TRUE
          /\ lkPc' = [lkPc EXCEPT ![t] = "set_return"]
          /\ UNCHANGED <<lkReg, lkLocks>>
       \/ /\ lkPc[t] = "set_return"
          /\ lkLocks' = [lkLocks EXCEPT !.quota = @ \ {t}]
          /\ lkPc' = [lkPc EXCEPT ![t] = "returned"]
          /\ lkReg' = [lkReg EXCEPT ![t].result = "failed"]
          /\ UNCHANGED quota_exceeded
    /\ UNCHANGED <<processed_countries, uploaded_count, skipped_count, failed_count>>

\* _process_country in worker t, as far as the flag goes: the check of lines
\* 95-100, the calls that upload, fail or fail with a quota error (lines
\* 107-133), and the handler of lines 135-148
WorkerStep(t) ==
    \/ CheckQuotaExceeded(t)
    \/ SetQuotaExceeded(t)
    \/ /\ lkPc[t] = "checked"
       /\ IF lkReg[t].flag
          THEN /\ lkPc' = [lkPc EXCEPT ![t] = "returned"]
               /\ lkReg' = [lkReg EXCEPT ![t].result = "skipped"]
          ELSE /\ lkPc' = [lkPc EXCEPT ![t] = "calls"]
               /\ UNCHANGED lkReg
       /\ UNCHANGED <<lkLocks, quota_exceeded, processed_countries, uploaded_count,
                      skipped_count, failed_count>>
    \/ /\ lkPc[t] = "calls"
       /\ \E outcome \in {"uploaded", "failed", "quota"} :
             IF outcome = "quota"
             THEN lkPc' = [lkPc EXCEPT ![t] = "set"] /\ UNCHANGED lkReg
             ELSE /\ lkPc' = [lkPc EXCEPT ![t] = "returned"]
                  /\ lkReg' = [lkReg EXCEPT ![t].result = outcome]
       /\ UNCHANGED <<lkLocks, quota_exceeded, processed_countries, uploaded_count,
                      skipped_count, failed_count>>

\* generate(), lines 200-218, in the main thread: as_completed yields the future
\* of a worker that returned, the flag is checked, processed_countries is
\* counted (line 210), then one of the other counters inside the stats lock
MainStep ==
    \/ /\ lkPc[0] = "wait"
       /\ \/ \E w \in 1..MaxUnits :
                /\ lkPc[w] = "returned"
                /\ lkPc' = [lkPc EXCEPT ![w] = "yielded", ![0] = "check"]
                /\ lkReg' = [lkReg EXCEPT ![0].result = lkReg[w].result]
          \/ /\ \A w \in 1..MaxUnits : lkPc[w] = "yielded"
             /\ lkPc' = [lkPc EXCEPT ![0] = "done"]
             /\ UNCHANGED lkReg
       /\ UNCHANGED <<lkLocks, quota_exceeded, processed_countries, uploaded_count,
                      skipped_count, failed_count>>
    \/ CheckQuotaExceeded(0)
    \/ /\ lkPc[0] = "checked"
       /\ lkPc' = [lkPc EXCEPT ![0] = IF lkReg[0].flag THEN "done" ELSE "processed_load"]
       /\ UNCHANGED <<lkLocks, lkReg, quota_exceeded, processed_countries, uploaded_count,
                      skipped_count, failed_count>>
    \/ /\ lkPc[0] = "processed_load"
       /\ lkReg' = [lkReg EXCEPT ![0].n = processed_countries]
       /\ lkPc' = [lkPc EXCEPT ![0] = "processed_store"]
       /\ UNCHANGED <<lkLocks, quota_exceeded, processed_countries, uploaded_count,
                      skipped_count, failed_count>>
    \/ /\ lkPc[0] = "processed_store"
       /\ processed_countries' = lkReg[0].n + 1
       /\ lkPc' = [lkPc EXCEPT ![0] = "stats"]
       /\ UNCHANGED <<lkLocks, lkReg, quota_exceeded, uploaded_count, skipped_count,
                      failed_count>>
    \/ /\ lkPc[0] = "stats"
       /\ acquire("stats", 0)
       /\ lkPc' = [lkPc EXCEPT ![0] = "count_load"]
       /\ UNCHANGED <<lkReg, quota_exceeded, processed_countries, uploaded_count,
                      skipped_count, failed_count>>
    \/ /\ lkPc[0] = "count_load"
       /\ lkReg' = [lkReg EXCEPT ![0].n = CASE lkReg[0].result = "skipped" -> skipped_count
                                            [] lkReg[0].result = "uploaded" -> uploaded_count
                                            [] OTHER -> failed_count]
       /\ lkPc' = [lkPc EXCEPT ![0] = "count_store"]
       /\ UNCHANGED <<lkLocks, quota_exceeded, processed_countries, uploaded_count,
                      skipped_count, failed_count>>
    \/ /\ lkPc[0] = "count_store"
       /\ skipped_count' = IF lkReg[0].result = "skipped" THEN lkReg[0].n + 1 ELSE skipped_count
       /\ uploaded_count' = IF lkReg[0].result = "uploaded" THEN lkReg[0].n + 1 ELSE uploaded_count
       /\ failed_count' = IF lkReg[0].result \notin {"skipped", "uploaded"}
                          THEN lkReg[0].n + 1 ELSE failed_count
       /\ lkPc' = [lkPc EXCEPT ![0] = "stats_return"]
       /\ UNCHANGED <<lkLocks, lkReg, quota_exceeded, processed_countries>>
    \/ /\ lkPc[0] = "stats_return"
       /\ lkLocks' = [lkLocks EXCEPT !.stats = @ \ {0}]
       /\ lkPc' = [lkPc EXCEPT ![0] = "wait"]
       /\ UNCHANGED <<lkReg, quota_exceeded, processed_countries, uploaded_count,
                      skipped_count, failed_count>>

(***************************************************************************)
(* Specifications                                                          *)
(***************************************************************************)
InitSql == InitSqlInput /\ InitColIdle /\ InitCgIdle /\ InitPgIdle /\ InitIgIdle /\ InitOthersIdle("none")
NextSql == FormatSqlValue /\ UNCHANGED <<colVars, cgVars, pgVars, igVars, psVars, vgVars, stVars, mnVars, sbVars, lkVars>>
SpecSql == InitSql /\ [][NextSql]_vars

InitColor == InitColInput /\ InitSqlIdle /\ InitCgIdle /\ InitPgIdle /\ InitIgIdle /\ InitOthersIdle("none")
NextColor == GetMutedColor /\ UNCHANGED <<sqlVars, cgVars, pgVars, igVars, psVars, vgVars, stVars, mnVars, sbVars, lkVars>>
SpecColor == InitColor /\ [][NextColor]_vars

\* one run of the countries generator
InitCountries == InitCgFrom(Catalogue) /\ InitSqlIdle /\ InitColIdle /\ InitPgIdle /\ InitIgIdle /\ InitOthersIdle("none")
NextCountries == (FetchCountries \/ ProcessCountry \/ WriteFile) /\ UNCHANGED <<sqlVars, colVars, pgVars, igVars, psVars, vgVars, stVars, mnVars, sbVars, lkVars>>
SpecCountries == InitCountries /\ [][NextCountries]_vars

\* two runs of the countries generator, one after the other
InitCountriesTwice == InitCgFrom(TwiceCatalogue) /\ InitSqlIdle /\ InitColIdle /\ InitPgIdle /\ InitIgIdle /\ InitOthersIdle("none")
NextCountriesTwice ==
    (FetchCountries \/ ProcessCountry \/ WriteFile \/ RunAgain) /\ UNCHANGED <<sqlVars, colVars, pgVars, igVars, psVars, vgVars, stVars, mnVars, sbVars, lkVars>>
SpecCountriesTwice == InitCountriesTwice /\ [][NextCountriesTwice]_vars

\* one run of the audio generator
InitAudioRun == InitAudio /\ InitSqlIdle /\ InitColIdle /\ InitCgIdle /\ InitIgIdle /\ InitOthersIdle("none")
NextAudio ==
    \/ (Submit \/ AudioCollect \/ Shutdown) /\ UNCHANGED <<sqlVars, colVars, cgVars, igVars, psVars, vgVars, stVars, mnVars, sbVars, lkVars>>
    \/ \E c \in Countries :
          (AudioBegin(c) \/ AudioCheckQuota(c) \/ AudioTts(c) \/ AudioUpload(c))
          /\ UNCHANGED <<sqlVars, colVars, cgVars, igVars, psVars, vgVars, stVars, mnVars, sbVars, lkVars>>
SpecAudio == InitAudioRun /\ [][NextAudio]_vars

\* one run of the audio generator in which the main thread and the workers of the
\* pool keep running and every remote call returns or raises: a step that can be
\* taken is taken in the end;
\* it starts with the scripts of the first two countries and the audio of the
\* first country in storage
InitAudioFair ==
    /\ pgPc = "start" /\ pgRun = 1
    /\ units = NoUnits
    /\ quota_exceeded = FALSE
    /\ scripts = {ScriptPath(CountryRows[1]), ScriptPath(CountryRows[2])}
    /\ audio = {AudioPath(CountryRows[1])}
    /\ processed_countries = 0 /\ uploaded_count = 0 /\ skipped_count = 0 /\ failed_count = 0
    /\ pgYielded = {} /\ pgCalls = {} /\ pgLate = {} /\ pgProduced1 = {}
    /\ InitSqlIdle /\ InitColIdle /\ InitCgIdle /\ InitIgIdle /\ InitOthersIdle("none")
SpecAudioFair == InitAudioFair /\ [][NextAudio]_vars /\ WF_vars(NextAudio)

\* two runs of the script generator, one after the other
InitScriptTwice == InitScript /\ InitSqlIdle /\ InitColIdle /\ InitCgIdle /\ InitIgIdle /\ InitOthersIdle("none")
NextScriptTwice ==
    \/ (Submit \/ ScriptCollect \/ Shutdown \/ ScriptRunAgain)
       /\ UNCHANGED <<sqlVars, colVars, cgVars, igVars, psVars, vgVars, stVars, mnVars, sbVars, lkVars>>
    \/ \E c \in Countries :
          (ScriptBegin(c) \/ ScriptLlm(c) \/ ScriptUpload(c))
          /\ UNCHANGED <<sqlVars, colVars, cgVars, igVars, psVars, vgVars, stVars, mnVars, sbVars, lkVars>>
SpecScriptTwice == InitScriptTwice /\ [][NextScriptTwice]_vars

\* one run of the ingest generator
InitIngest == InitIg /\ InitPgNoRun /\ InitSqlIdle /\ InitColIdle /\ InitCgIdle /\ InitOthersIdle("none")
NextIngest ==
    (ListFiles \/ ProcessAudioFile \/ InsertMany \/ InsertOne)
    /\ UNCHANGED <<sqlVars, colVars, cgVars, pgVars, psVars, vgVars, stVars, mnVars, sbVars, lkVars>>
SpecIngest == InitIngest /\ [][NextIngest]_vars

\* parse_response applied to one content
InitParse ==
    InitPsInput /\ InitOthersIdle("ps")
    /\ InitSqlIdle /\ InitColIdle /\ InitCgIdle /\ InitPgIdle /\ InitIgIdle
NextParse ==
    (ParseResponse)
    /\ UNCHANGED <<sqlVars, colVars, cgVars, pgVars, igVars, vgVars, stVars, mnVars, sbVars, lkVars>>
SpecParse == InitParse /\ [][NextParse]_vars

\* one run of the vibe generator
InitVibes ==
    InitVg /\ InitOthersIdle("vg")
    /\ InitSqlIdle /\ InitColIdle /\ InitCgIdle /\ InitPgIdle /\ InitIgIdle
NextVibes ==
    (VgStart \/ VgBatch \/ VgInsertMany \/ VgInsertOne)
    /\ UNCHANGED <<sqlVars, colVars, cgVars, pgVars, igVars, psVars, stVars, mnVars, sbVars, lkVars>>
SpecVibes == InitVibes /\ [][NextVibes]_vars

\* calls of get_or_upload_from_url on one bucket
InitStorage ==
    InitSt /\ InitOthersIdle("st")
    /\ InitSqlIdle /\ InitColIdle /\ InitCgIdle /\ InitPgIdle /\ InitIgIdle
NextStorage ==
    (GetOrUpload)
    /\ UNCHANGED <<sqlVars, colVars, cgVars, pgVars, igVars, psVars, vgVars, mnVars, sbVars, lkVars>>
SpecStorage == InitStorage /\ [][NextStorage]_vars

\* one run of main()
InitMain ==
    InitMn /\ InitOthersIdle("mn")
    /\ InitSqlIdle /\ InitColIdle /\ InitCgIdle /\ InitPgIdle /\ InitIgIdle
NextMain ==
    (MainStart \/ MainReturn \/ MainEnd)
    /\ UNCHANGED <<sqlVars, colVars, cgVars, pgVars, igVars, psVars, vgVars, stVars, sbVars, lkVars>>
SpecMain == InitMain /\ [][NextMain]_vars

\* the ingest generator in one process after another
InitSubtitle ==
    InitSb /\ InitOthersIdle("sb")
    /\ InitSqlIdle /\ InitColIdle /\ InitCgIdle /\ InitPgIdle /\ InitIgIdle
NextSubtitle ==
    (StartProcess \/ ChooseSubtitle)
    /\ UNCHANGED <<sqlVars, colVars, cgVars, pgVars, igVars, psVars, vgVars, stVars, mnVars, lkVars>>
SpecSubtitle == InitSubtitle /\ [][NextSubtitle]_vars

\* the threads of one run of the audio generator, step by step
InitLocks == InitLk /\ InitOthersIdle("lk") /\ InitSqlIdle /\ InitColIdle /\ InitCgIdle /\ InitPgIdle /\ InitIgIdle
NextLocks ==
    /\ MainStep \/ \E t \in 1..MaxUnits : WorkerStep(t)
    /\ UNCHANGED <<pgPc, pgRun, units, scripts, audio, pgYielded, pgCalls, pgLate, pgProduced1>>
    /\ UNCHANGED <<sqlVars, colVars, cgVars, igVars, psVars, vgVars, stVars, mnVars, sbVars>>
SpecLocks == InitLocks /\ [][NextLocks]_vars

(***************************************************************************)
(* Reading a SQL string literal back: strip the outer quotes, collapse     *)
(* each doubled quote; a text that is not a literal reads as Unreadable    *)
(***************************************************************************)
Unreadable == <<0>>

RECURSIVE CollapseQuotes(_)
CollapseQuotes(s) ==
    IF s = <<>> THEN <<>>
    ELSE IF Head(s) /= Quote
         THEN LET rest == CollapseQuotes(Tail(s))
              IN  IF rest = Unreadable THEN Unreadable ELSE <<Head(s)>> \o rest
         ELSE IF Len(s) >= 2 /\ s[2] = Quote
              THEN LET rest == CollapseQuotes(SubSeq(s, 3, Len(s)))
                   IN  IF rest = Unreadable THEN Unreadable ELSE <<Quote>> \o rest
              ELSE Unreadable

ReadSqlLiteral(lit) ==
    IF Len(lit) >= 2 /\ lit[1] = Quote /\ lit[Len(lit)] = Quote
    THEN CollapseQuotes(SubSeq(lit, 2, Len(lit) - 1))
    ELSE Unreadable

CountQuotes(s) == Cardinality({i \in 1..Len(s) : s[i] = Quote})

IsHexDigit(c) == (c >= Digit0 /\ c <= Digit9) \/ (c >= UpperA /\ c <= UpperF)

\* C7: format_sql_value wraps the text in single quotes with every embedded quote
\* doubled (two outer quotes plus one extra character per embedded quote), and
\* reading the literal back gives the original text.
TheoremC7 ==
    sqlPc = "formatted" =>
        /\ Len(sqlOut) = Len(sqlIn) + 2 + CountQuotes(sqlIn)
        /\ sqlOut[1] = Quote /\ sqlOut[Len(sqlOut)] = Quote
        /\ ReadSqlLiteral(sqlOut) = sqlIn

WitnessC7 == sqlPc = "formatted" /\ CountQuotes(sqlIn) >= 2 /\ Len(sqlIn) > CountQuotes(sqlIn)

\* C10: for a palette with a valid swatch and an alpha percent in 0..100 the result
\* is '#' followed by 8 hex digits, alpha byte first, then red, green, blue, and the
\* alpha byte is round(percent / 100 * 255).
ClaimC10 ==
    (colPc = "done" /\ colPalette /= None /\ MutedOrDark(colPalette) /= None) =>
        /\ Len(colOut) = 9 /\ colOut[1] = Hash
        /\ \A i \in 2..9 : IsHexDigit(colOut[i])
        /\ SubSeq(colOut, 2, 3) = Hex02X(AlphaValue_rounded(colAlpha))
        /\ SubSeq(colOut, 4, 9) = Hex02X(MutedOrDark(colPalette)[1])
                                   \o Hex02X(MutedOrDark(colPalette)[2])
                                   \o Hex02X(MutedOrDark(colPalette)[3])

(***************************************************************************)
(* Countries generator: properties                                         *)
(***************************************************************************)
Range(seq) == {seq[i] : i \in 1..Len(seq)}

HasPrefix(text, prefix) == Len(text) >= Len(prefix) /\ SubSeq(text, 1, Len(prefix)) = prefix

Ascending(rows) == \A i \in 1..(Len(rows) - 1) : TextLeq(rows[i], rows[i + 1])

\* the ignore-list and the ignored continents, as the specification names them
OnIgnoreList(p) ==
    \/ upper(p.cca2) = S(<<"A", "Q">>)
    \/ \E i \in 1..Len(p.continents) : p.continents[i] = S(<<"A", "n", "t", "a", "r", "c", "t", "i", "c", "a">>)

\* C4: a fetched country whose ISO2 code, in any letter case, is on the ignore-list,
\* or whose continents include an ignored continent, is never converted, has no
\* flag uploaded and is no row of the rows built or of the file written.
TheoremC4 ==
    \A i \in 1..Len(cgFetched) :
        LET p == cgFetched[i] IN
        OnIgnoreList(p) =>
            /\ p \notin cgDerived
            /\ (upper(p.cca2) \o DotPng) \notin cgUploads
            /\ \A k \in 1..Len(cgEmitted) : cgEmitted[k].payload /= p
            /\ \A row \in Range(cgRows) \cup Range(cgFile.rows) :
                   ~HasPrefix(row, RowOpen \o format_sql_value(upper(p.cca2)))

WitnessC4 ==
    /\ cgPc = "done"
    /\ Len(cgFile.rows) = 1
    /\ Len(cgFetched) = 2
    /\ \E i \in 1..Len(cgFetched) : upper(cgFetched[i].cca2) = S(<<"A", "Q">>) /\ cgFetched[i].cca2 /= S(<<"A", "Q">>)

\* C5: the ISO2 code of every row emitted is exactly two upper-case letters, and no
\* two rows of one output share an ISO2 code.
ClaimC5 ==
    /\ \A k \in 1..Len(cgEmitted) :
           LET iso2 == cgEmitted[k].country.iso2
           IN  Len(iso2) = 2 /\ IsUpperLetter(iso2[1]) /\ IsUpperLetter(iso2[2])
    /\ \A k, l \in 1..Len(cgEmitted) :
           k /= l => cgEmitted[k].country.iso2 /= cgEmitted[l].country.iso2

\* the row of ten quoted columns
RowOf(columns) ==
    RowOpen \o Join([i \in 1..Len(columns) |-> format_sql_value(columns[i])], RowSep) \o RowClose

\* the k-th row appended is where it was appended until the rows are sorted, and
\* is one of the rows of the file afterwards
EmittedRowIs(k, row) ==
    /\ Len(cgRows) = Len(cgEmitted)
    /\ IF cgPc = "done" THEN row \in Range(cgFile.rows) /\ Len(cgFile.rows) = Len(cgEmitted)
       ELSE cgRows[k] = row

\* C8 as stated: the row is upper-cased cca2, common name, first capital, first
\* continent, name of the first language, upper-cased code of the first language,
\* name of the first currency, upper-cased code of the first currency, flag
\* reference, colour.
ClaimC8 ==
    \A k \in 1..Len(cgEmitted) :
        LET p == cgEmitted[k].payload
            c == cgEmitted[k].country
        IN  /\ Len(p.capital) >= 1
            /\ EmittedRowIs(k, RowOf(<<upper(p.cca2), p.common, p.capital[1], p.continents[1],
                                       p.languages[1][2], upper(p.languages[1][1]),
                                       p.currencies[1][2], upper(p.currencies[1][1]),
                                       c.flag_full_path, c.background_hex>>))

\* C8 as amended: as above, except that the capital column is the text None when the
\* country has no capital, and the currency-name column is the upper-cased currency
\* code when the first currency has an empty name; the flag reference is
\* flags/<ISO2>.png.
TheoremC8 ==
    \A k \in 1..Len(cgEmitted) :
        LET p == cgEmitted[k].payload
            c == cgEmitted[k].country
        IN  EmittedRowIs(k, RowOf(<<upper(p.cca2), p.common,
                                    IF Len(p.capital) >= 1 THEN p.capital[1] ELSE NoneText,
                                    p.continents[1],
                                    p.languages[1][2], upper(p.languages[1][1]),
                                    IF p.currencies[1][2] /= <<>> THEN p.currencies[1][2]
                                    ELSE upper(p.currencies[1][1]),
                                    upper(p.currencies[1][1]),
                                    S(<<"f", "l", "a", "g", "s", "/">>) \o upper(p.cca2) \o S(<<".", "p", "n", "g">>), c.background_hex>>))

WitnessC8 ==
    /\ cgPc = "done"
    /\ \E k \in 1..Len(cgEmitted) : cgEmitted[k].payload = PXk
    /\ \E k \in 1..Len(cgEmitted) : cgEmitted[k].payload = PMo

NoSwatch(palette) == palette = None \/ (muted(palette) = None /\ dark_muted(palette) = None)

FallbackColour == S(<<"#", "C", "C", "0", "0", "0", "0", "0", "0">>)

SameColours ==
    /\ Len(cgEmitted) = Len(cgEmitted1)
    /\ \E f \in [1..Len(cgEmitted) -> 1..Len(cgEmitted)] :
        /\ \A i, j \in 1..Len(cgEmitted) : f[i] = f[j] => i = j
        /\ \A i \in 1..Len(cgEmitted) :
            /\ cgEmitted[i].payload = cgEmitted1[f[i]].payload
            /\ cgEmitted[i].country.background_hex = cgEmitted1[f[i]].country.background_hex

ClaimC1 ==
    pgRun = 2 => \A c \in pgProduced1 : <<c, "upload">> \notin pgCalls

\* C2: a unit that had not started when the quota flag was set never calls the
\* TTS service and never uploads; it is cancelled or it ends as skipped.
TheoremC2 ==
    \A c \in pgLate :
        /\ <<c, "tts">> \notin pgCalls
        /\ <<c, "upload">> \notin pgCalls
        /\ AudioPath(c) \in audio => ~units[c].success
        /\ units[c].future = "finished" => units[c].skipped
        /\ pgPc = "done" => units[c].future \in {"cancelled", "finished"}

\* the flag was set while two units were pending: one began afterwards and was
\* skipped at the quota check, the other was cancelled by generate()
WitnessC2 ==
    /\ pgPc = "done"
    /\ quota_exceeded
    /\ \E b, c \in pgLate :
          /\ units[b].future = "finished" /\ units[b].why = "quota"
          /\ units[c].future = "cancelled"

\* C3: a failure of a call made for one country does not leave generate(), and
\* the remaining countries are still processed (checked on the ingest generator).
ClaimC3 ==
    ~(igPc = "raised" /\ igError \in {"get_by_iso2", "insert"})

(***************************************************************************)
(* Vibe generator and structured LLM answers: properties                   *)
(***************************************************************************)
\* the assignments parse_response returned for the answers, batch after batch
AnsweredAssignments ==
    [b \in 1..Len(vgAnswers) |-> parse_response(vgAnswers[b].content).result]

KnownTitle(title) == \E i \in 1..Len(vgVibes) : vgVibes[i].title = title
KnownCountry(iso2) == \E i \in 1..Len(vgCountries) : vgCountries[i] = iso2

\* the places <<batch, assignment, title>> of the answers where a known title is
\* given to a known country
ResolvingPlaces ==
    {place \in UNION {UNION {{<<b, i, j>> : j \in 1..Len(AnsweredAssignments[b][i].vibe_titles)} :
                                i \in 1..Len(AnsweredAssignments[b])} :
                         b \in 1..Len(AnsweredAssignments)} :
        LET a == AnsweredAssignments[place[1]][place[2]]
        IN  KnownCountry(a.country_iso2) /\ KnownTitle(a.vibe_titles[place[3]])}

\* C11: a vibe title of an answer that is not in the known vibe set produces no join
\* row and does not fail the run; every title of a known country that does resolve
\* produces its row, so the rows are as many as the resolving titles.
TheoremC11 ==
    (vgPc \in {"batches", "fallback", "done"} /\ vgVibes /= <<>>) =>
        /\ Len(all_vibe_country_records) = Cardinality(ResolvingPlaces)
        /\ \A place \in ResolvingPlaces :
               LET a == AnsweredAssignments[place[1]][place[2]]
               IN  \E k \in 1..Len(all_vibe_country_records), v \in 1..Len(vgVibes) :
                      /\ vgVibes[v].title = a.vibe_titles[place[3]]
                      /\ all_vibe_country_records[k] =
                             [country_id |-> a.country_iso2, vibe_id |-> vgVibes[v].id]
        /\ \A k \in 1..Len(all_vibe_country_records) :
               \E v \in 1..Len(vgVibes) : vgVibes[v].id = all_vibe_country_records[k].vibe_id
        /\ \A b \in 1..Len(vgAnswers) :
               (vgAnswers[b].answered /\ parse_response(vgAnswers[b].content).outcome = "ok")
                   => batch_idx >= b * BATCH_SIZE

\* an answer gave one country an unknown title between two known ones, and the run
\* ended with both rows in the table
WitnessC11 ==
    /\ vgPc = "done"
    /\ \E b \in 1..Len(AnsweredAssignments) : \E i \in 1..Len(AnsweredAssignments[b]) :
          LET a == AnsweredAssignments[b][i]
          IN  /\ KnownCountry(a.country_iso2)
              /\ \E j \in 1..Len(a.vibe_titles) : ~KnownTitle(a.vibe_titles[j])
              /\ Cardinality({r \in vibes_country : r.country_id = a.country_iso2}) >= 2

\* C12 as stated: a content is accepted only if it is a JSON object with the key
\* "assignments" and without the key "data"; everything else yields no records.
ClaimC12 ==
    psPc = "done" =>
        /\ psResult.outcome = "ok" =>
               /\ psContent.wellformed
               /\ psContent.value.kind = "dict"
               /\ HasKey(psContent.value, "assignments")
               /\ ~HasKey(psContent.value, "data")
        /\ psResult.outcome /= "ok" => psResult.result = <<>>

\* C13 as stated: when parse_response returns, every item it went through is an
\* object that has the keys country_iso2 and vibe_titles, the first a non-empty
\* string and the second a list of strings.
ClaimC13 ==
    (psPc = "done" /\ psResult.outcome = "ok") =>
        \A i \in 1..Len(Iterate(psResult.assignments)) :
            LET item == Iterate(psResult.assignments)[i]
            IN  /\ item.kind = "dict"
                /\ HasKey(item, "country_iso2")
                /\ HasKey(item, "vibe_titles")
                /\ DictGet(item, "vibe_titles", JNull).kind = "list"

\* a duplicate-key error, as the text of the error tells
DuplicateKey(e) == "duplicate" \in e.words \/ "unique" \in e.words

\* C14: when the bulk insert fails, the fallback goes through the same records in
\* order; a duplicate-key error on a record is swallowed and the next record is
\* tried, any other error leaves generate() at once, and a fallback that ends has
\* every record in the table.
TheoremC14 ==
    /\ vgBulkError /= DbErrors.none => vgPc \in {"fallback", "done", "raised"}
    /\ vgFallback /= <<>> => vgBulkError /= DbErrors.none
    /\ \A k \in 1..Len(vgFallback) :
           /\ vgFallback[k].record = all_vibe_country_records[k]
           /\ DuplicateKey(vgFallback[k].error) =>
                  /\ vgInsertIdx > k
                  /\ ~(vgPc = "raised" /\ k = Len(vgFallback))
           /\ (vgFallback[k].error /= DbErrors.none /\ ~DuplicateKey(vgFallback[k].error)) =>
                  /\ k = Len(vgFallback)
                  /\ vgPc = "raised" /\ vgError = "insert"
    /\ (vgPc = "done" /\ vgBulkError /= DbErrors.none) =>
           /\ Len(vgFallback) = Len(all_vibe_country_records)
           /\ \A k \in 1..Len(all_vibe_country_records) :
                  all_vibe_country_records[k] \in vibes_country

\* the bulk insert hit a duplicate key, the fallback swallowed a duplicate-key error
\* and inserted the record after it
WitnessC14 ==
    /\ vgPc = "done"
    /\ DuplicateKey(vgBulkError)
    /\ \E k \in 1..(Len(vgFallback) - 1) :
          DuplicateKey(vgFallback[k].error) /\ vgFallback[k + 1].error = DbErrors.none

(***************************************************************************)
(* Storage, main() and the subtitle: properties                            *)
(***************************************************************************)
\* C15 as stated: a call that finds the object present uploads nothing and returns
\* '<bucket>/<path>'; no path is written more than once and no object that is there
\* is written over.
ClaimC15 ==
    /\ (stLast.called /\ stLast.present) =>
           /\ ~stLast.uploaded
           /\ stLast.full_path = FlagsBucketName \o Slash \o stLast.storage_path
    /\ \A p \in StPaths : stWrites[p] <= 1
    /\ stOverwritten = {}

\* C16: the generators started are the first ones of the configured list, in list
\* order and one at a time; once a generate() raised, main() has raised, that
\* generator is the last one started and no later one is started.
TheoremC16 ==
    /\ Len(mnStarted) <= Len(generators)
    /\ mnStarted = SubSeq(generators, 1, Len(mnStarted))
    /\ IF mnActive /= "none"
       THEN mnIdx = Len(mnStarted) /\ mnActive = generators[mnIdx]
       ELSE mnPc = "raised" \/ mnIdx = Len(mnStarted) + 1
    /\ mnRaised /= "none" =>
           /\ mnPc = "raised"
           /\ mnActive = "none"
           /\ mnStarted[Len(mnStarted)] = mnRaised
    /\ mnPc = "done" => mnStarted = generators /\ mnRaised = "none"

\* the second of three configured generators raised
WitnessC16 ==
    /\ mnPc = "raised"
    /\ Len(generators) = 3
    /\ Len(mnStarted) = 2
    /\ mnRaised = generators[2]

\* C18 as stated: two processes that choose the subtitle of one ISO2 code choose the
\* same entry of the rotation.
ClaimC18 ==
    \A iso2 \in Countries : \A p, q \in 1..MaxProcesses :
        (sbSubtitle[p][iso2] /= "none" /\ sbSubtitle[q][iso2] /= "none")
            => sbSubtitle[p][iso2] = sbSubtitle[q][iso2]

(***************************************************************************)
(* Countries generator: a run that fails                                   *)
(***************************************************************************)
\* the file as it was when the run started
FileBeforeRun == IF cgRun = 1 THEN NoFile ELSE cgFile1

ClaimC19 ==
    igPc \in {"done", "raised"} =>
        /\ ig_processed_count + ig_skipped_count = Len(wav_files)
        /\ ig_processed_count <= igInserted

CallsOf(c) == {call \in {"probe_audio", "probe_script", "download", "tts", "upload"} :
                  <<c, call>> \in pgCalls}

\* C20 as stated: a unit that begins after the quota flag was set makes no remote
\* call at all.
ClaimC20 ==
    \A c \in pgLate : CallsOf(c) = {}

\* C20 as amended: a unit that begins after the quota flag was set makes its
\* existence probes at most, and no download, TTS call or upload; when it has
\* finished it is skipped: the audio exists, the script is missing, or the quota.
TheoremC20 ==
    \A c \in pgLate :
        /\ CallsOf(c) \subseteq {"probe_audio", "probe_script"}
        /\ units[c].future /= "running" \/ units[c].at = "quota_check"
        /\ units[c].future = "finished" =>
               /\ units[c].skipped /\ ~units[c].success
               /\ units[c].why \in {"exists", "noscript", "quota"}

\* a unit began after the flag was set, probed twice and was skipped at the check
WitnessC20 ==
    \E c \in pgLate :
        /\ units[c].future = "finished" /\ units[c].why = "quota"
        /\ CallsOf(c) = {"probe_audio", "probe_script"}

(***************************************************************************)
(* Podcast generators: counting, the quota signal, the order of the calls  *)
(***************************************************************************)
\* the units of the run that returned a result
Finished == {c \in Countries : units[c].future = "finished"}
Failed == {c \in Finished : ~units[c].success /\ ~units[c].skipped}
QuotaWords == {"quota", "limit"}

\* C22: when the run is over, every unit that finished has been counted, and
\* every unit that ended failed is counted as failed.
ClaimC22 ==
    pgPc = "done" =>
        /\ processed_countries = Cardinality(Finished)
        /\ failed_count = Cardinality(Failed)

\* C23: a unit of the audio generator that failed with an error whose text
\* speaks of a quota or a limit has set the quota flag, whichever call raised it.
ClaimC23 ==
    \A c \in Failed : units[c].error \cap QuotaWords # {} => quota_exceeded

\* C24: the TTS service is called for a country only when the probes of the unit
\* found no audio object and found the script object, and the audio object is
\* uploaded only after the TTS call of the unit returned audio.
TheoremC24 ==
    \A c \in Countries :
        /\ <<c, "tts">> \in pgCalls =>
               /\ {<<c, "probe_audio">>, <<c, "probe_script">>} \subseteq pgCalls
               /\ units[c].found = {"script"}
               /\ ScriptPath(c) \in scripts
        /\ <<c, "upload">> \in pgCalls =>
               /\ <<c, "tts">> \in pgCalls
               /\ units[c].tts = AudioData

WitnessC24 ==
    \E c, d \in Countries :
        /\ units[c].success /\ AudioPath(c) \in audio /\ units[c].tts = AudioData
        /\ units[d].why = "tts" /\ units[d].tts = NoAudioData
        /\ <<d, "upload">> \notin pgCalls

\* C27: a unit whose TTS call failed with an error that speaks neither of a
\* quota nor of a limit has not set the quota flag.
ClaimC27 ==
    \A c \in Countries :
        units[c].why = "tts_quota" => units[c].tts.words \cap QuotaWords # {}

\* the order of the calls: the script generator uploads the script of a
\* country only after the LLM call of the unit returned a text that is not blank,
\* and a unit whose probe found the script, whose LLM call failed or whose LLM
\* call returned a blank text uploads nothing.
UploadsAfterScript ==
    \A c \in Countries :
        /\ <<c, "upload">> \in pgCalls =>
               /\ <<c, "llm">> \in pgCalls
               /\ units[c].script # <<>>
        /\ units[c].why \in {"exists", "llm", "empty"} => <<c, "upload">> \notin pgCalls

\* C25: the script generator uploads the script of a country only after the LLM
\* call of the unit returned a text that is not blank; when the script is
\* already in storage (here: produced by the run before), when the LLM call
\* fails or when it returns a blank text, nothing is uploaded for the country.
ClaimC25 ==
    /\ UploadsAfterScript
    /\ pgRun = 2 =>
           \A c \in pgProduced1 : <<c, "llm">> \notin pgCalls /\ <<c, "upload">> \notin pgCalls

(***************************************************************************)
(* Ingest generator: which objects become records                          *)
(***************************************************************************)
\* the name of the object a record was built from
FileOfRecord(record) ==
    SubSeq(record.audio_full_patch, Len(AudioBucketName \o Slash) + 1,
           Len(record.audio_full_patch))

\* C26: a podcast record is built for an object only if its name is two letters
\* followed by ".wav", the code resolves to a country and the table holds no
\* podcast of that country.
ClaimC26 ==
    igPc = "loop" =>
        \A i \in 1..Len(podcast_records) :
            /\ MatchesIsoWav(FileOfRecord(podcast_records[i]))
            /\ podcast_records[i].country_id \in Countries
            /\ ~HasPodcast(country_podcasts, podcast_records[i].country_id)

\* C29: one run builds at most one podcast record per country.
ClaimC29 ==
    \A i, j \in 1..Len(podcast_records) :
        podcast_records[i].country_id = podcast_records[j].country_id => i = j

(***************************************************************************)
(* Vibe generator: the inserts come after the last batch                   *)
(***************************************************************************)
\* C28: no insert is made before the LLM call of every batch has succeeded: while
\* the batches are worked on, and when a batch has made generate() raise,
\* vibes_country is as it was when the run started (empty or one row) and no
\* insert has been tried.
TheoremC28 ==
    (vgPc = "batches" \/ (vgPc = "raised" /\ vgError \in {"llm", "parse"})) =>
        /\ vibes_country \in {{}, {[country_id |-> CountryRows[1], vibe_id |-> "v1"]},
                                  {[country_id |-> CountryRows[2], vibe_id |-> "v2"]}}
        /\ vgBulkError = DbErrors.none
        /\ vgFallback = <<>>

WitnessC28 ==
    /\ vgPc = "raised" /\ vgError \in {"llm", "parse"}
    /\ Len(vgAnswers) = 2
    /\ batch_idx = BATCH_SIZE
    /\ Len(all_vibe_country_records) > 1

(***************************************************************************)
(* Audio generator: termination                                            *)
(***************************************************************************)
\* C30: when every step that can be taken is taken in the end, generate() of the
\* audio generator terminates: the with block of the pool is left, with every
\* unit finished or cancelled.
TheoremC30 ==
    <>(pgPc = "done" /\ \A c \in Countries : units[c].future \in {"finished", "cancelled"})

\* the run is over after the flag was set while one unit was still queued (it
\* was cancelled) and another one was running (it finished after the loop was left)
WitnessC30 ==
    /\ pgPc = "done" /\ quota_exceeded
    /\ \E c, d \in Countries :
          /\ units[c].future = "cancelled"
          /\ units[d].future = "finished" /\ d \notin pgYielded
          /\ units[d].why \in {"tts", "upload", "uploaded", "write"}

(***************************************************************************)
(* Audio generator: the flag and the counters between the threads          *)
(***************************************************************************)
\* the shared variables thread t is reading or writing at its next step
Touches(t) ==
    CASE lkPc[t] \in {"check_read", "set_write"} -> {"quota_exceeded"}
      [] lkPc[t] \in {"processed_load", "processed_store"} -> {"processed_countries"}
      [] lkPc[t] \in {"count_load", "count_store"} -> {"counts"}
      [] OTHER -> {}

\* the workers whose result as_completed has handed to the main thread
YieldedWorkers == {w \in 1..MaxUnits : lkPc[w] = "yielded"}

====
